---- MODULE Spec2Model ----
(***************************************************************************)
(* Behavioural metrics engine of the AI-assisted interview backend         *)
(* (backend/advanced_metrics.py) and the way the analyzer drives it        *)
(* (backend/ai_analyzer.py).                                               *)
(*                                                                         *)
(* A session's events and AI interactions are logged one by one; the       *)
(* analyzer then constructs an AdvancedMetricsCalculator over them and     *)
(* calls calculate_all_metrics; the label AIHelper.classify_intent         *)
(* (backend/ai_helper.py) gave a prompt is stored with the interaction.    *)
(* Helper methods of the calculator can also be called directly.  Python   *)
(* floats are modelled by exact                                            *)
(* rationals <<numerator, denominator>> (denominator > 0); math.exp is     *)
(* modelled in fixed point.  Timestamps are whole seconds.                 *)
(*                                                                         *)
(* The server side is modelled as well: the generation loop of             *)
(* MultiModelAI (backend/langchain_config.py), the conversation history    *)
(* of AIHelper, and the HTTP handlers of backend/main.py that write the    *)
(* events and ai_interactions tables (backend/models.py), each as a call   *)
(* frame that moves from step to step.                                     *)
(***************************************************************************)
EXTENDS Integers, Sequences, FiniteSets, TLC

VARIABLES
    events,           \* event_data: the session's events, in sequence_number order
    ai_interactions,  \* ai_data: the session's AI interactions
    calc,             \* the AdvancedMetricsCalculator built for the analysis
    report,           \* what calculate_all_metrics returned
    sequences,        \* what detect_thinking_sequences returned
    helper_result,    \* what a helper method of the calculator, called directly, returned
    query_text,       \* the query text a caller is putting together, piece by piece
    ai_helper,        \* the AIHelper of the server: its ai_engine and conversation_history
    db,               \* the database: the sessions, events and ai_interactions tables
    calls,            \* the calls and HTTP requests in progress, each with its position
    reply             \* what the call that finished last returned

vars ==
    <<events, ai_interactions, calc, report, sequences, helper_result, query_text,
      ai_helper, db, calls, reply>>

\* the variables of the metrics analysis
analysis_vars ==
    <<events, ai_interactions, calc, report, sequences, helper_result, query_text>>

\* the variables of the server
server_vars == <<ai_helper, db, calls, reply>>

(***************************************************************************)
(* Bounds of the model.                                                    *)
(***************************************************************************)
\* longest event list of the mixed-session specification
MaxEvents == 3
\* longest interaction list of the mixed-session specification
MaxInteractions == 2
\* longest interaction list of the AI-reliance specification
MaxRelianceInteractions == 3
\* longest event list of the iteration specification
MaxIterEvents == 4
\* longest event list of the debugging specification
MaxDebugEvents == 4
\* longest event list of the explore-then-SQL specification
MaxExploreEvents == 7
\* longest event list of the dependency-loop specification
MaxLoopEvents == 5
\* longest event list of the AI-collaboration specification
MaxCollabEvents == 5
\* longest interaction list of the classification specification
MaxClassifyInteractions == 3
\* longest interaction list of the stored-label specification
MaxIntentInteractions == 3
\* longest event list of the caller-order specification
MaxOrderEvents == 3
\* longest event list of the malformed-event specification
MaxMalformedEvents == 3
\* most fragments a query of the SQL-analysis specification is made of
MaxQueryFragments == 4
\* longest event list of the query-list specification
MaxQueryEvents == 4
\* largest sample size of the confidence specification
MaxSampleSize == 40
\* longest event list of the exploration-score specification
MaxScoreEvents == 4
\* longest event list of the iteration-gap specification
MaxGapEvents == 3
\* most exchanges of the failed-generation specification
MaxFailureExchanges == 3
\* longest interaction list of the relabelling specification
MaxLabelInteractions == 2
\* most SQL executions of the executed-query specification
MaxExecutions == 3
\* most prompts of the interview specification
MaxPrompts == 7
\* most events of the submission specification
MaxSubmitEvents == 4
\* most events of the concurrent-requests specification
MaxRaceEvents == 4
\* most requests in progress at once in the concurrent-requests specification
MaxInFlight == 2
\* most AI_RESPONSE_USED events of the interview specification
MaxUsed == 1

(***************************************************************************)
(* Exact rationals standing for Python floats.                             *)
(***************************************************************************)
Rat(n, d) == <<n, d>>
RZero == Rat(0, 1)
ROne == Rat(1, 1)
REq(a, b) == IF a[2] = b[2] THEN a[1] = b[1] ELSE a[1] * b[2] = b[1] * a[2]
RLt(a, b) == IF a[2] = b[2] THEN a[1] < b[1] ELSE a[1] * b[2] < b[1] * a[2]
RLe(a, b) == IF a[2] = b[2] THEN a[1] <= b[1] ELSE a[1] * b[2] <= b[1] * a[2]
RMin(a, b) == IF RLe(a, b) THEN a ELSE b
RMax(a, b) == IF RLe(a, b) THEN b ELSE a
RSub(a, b) == Rat(a[1] * b[2] - b[1] * a[2], a[2] * b[2])
RAdd(a, b) ==
    IF a[2] = b[2] THEN Rat(a[1] + b[1], a[2])
    ELSE Rat(a[1] * b[2] + b[1] * a[2], a[2] * b[2])
RDivInt(a, n) == Rat(a[1], a[2] * n)

(***************************************************************************)
(* Event vocabulary (the type strings the calculators test for).           *)
(***************************************************************************)
ExplorationTypes == {"SCHEMA_EXPLORED", "TABLE_PREVIEWED", "DATA_QUALITY_CHECKED"}
IterationTypes == {"QUERY_MODIFIED", "APPROACH_CHANGED", "BACKTRACKED", "VALIDATION_ATTEMPT"}
SequenceExploreTypes == {"SCHEMA_EXPLORED", "TABLE_PREVIEWED"}
EventTypes ==
    ExplorationTypes \cup IterationTypes \cup
    {"SQL_RUN", "ERROR_OCCURRED", "ERROR_RESOLVED", "AI_PROMPT",
     "AI_RESPONSE_USED", "AI_CODE_MODIFIED", "AI_CODE_COPIED", "CODE_EDIT"}

\* An event record as _build_analysis_context hands it to the calculator;
\* query is metadata['query'] as a token sequence, <<>> when absent or empty.
Event(type, timestamp, query) ==
    [type |-> type, timestamp |-> timestamp, query |-> query]

\* an interaction row: the prompt and the label the prompt handler stored
Interaction(user_prompt, intent_label) ==
    [user_prompt |-> user_prompt, intent_label |-> intent_label]

\* None: event.get('timestamp') of an event without a timestamp, and the
\* initial last_time of the iteration filter.  Real timestamps are >= 0, so
\* an event without one sorts first, as the key datetime.min makes it.
NoTime == -1

\* the KeyError that event['timestamp'] raises on an event without a timestamp
RaisedKeyError == [kind |-> "raised", error |-> "KeyError"]

NoCalc == [kind |-> "none"]
NoReport == [kind |-> "none"]
NoSequences == [kind |-> "none"]
NoResult == [kind |-> "none"]

(***************************************************************************)
(* Sequence helpers.                                                       *)
(***************************************************************************)
CountIf(s, Test(_)) == Len(SelectSeq(s, Test))

Front(s) == SubSeq(s, 1, Len(s) - 1)
Last(s) == s[Len(s)]

\* sorted(events, key=timestamp): Python's sort is stable, so an event goes
\* after every earlier-listed event whose timestamp is <= its own.
RECURSIVE InsertByTimestamp(_, _)
InsertByTimestamp(e, s) ==
    IF s = <<>> THEN <<e>>
    ELSE IF Last(s).timestamp <= e.timestamp THEN Append(s, e)
    ELSE Append(InsertByTimestamp(e, Front(s)), Last(s))

RECURSIVE SortedByTimestamp(_)
SortedByTimestamp(s) ==
    IF s = <<>> THEN <<>>
    ELSE InsertByTimestamp(Last(s), SortedByTimestamp(Front(s)))

\* _count_events: counts.get(type, 0) for every type
CountEvents(evs) ==
    [t \in EventTypes |-> CountIf(evs, LAMBDA e : e.type = t)]

(***************************************************************************)
(* Confidence model: 1 / (1 + exp(-k (n - mid))), k = 6/optimal,           *)
(* mid = optimal/2, i.e. 1 / (1 + e^3 * (e^(-6/optimal))^n), in fixed      *)
(* point with ConfScale units per 1.0.                                     *)
(***************************************************************************)
ConfScale == 10 ^ 4

\* e^(-6/optimal_size) in ConfScale units, for the optimal sizes in use
ExpDecay(optimal_size) ==
    CASE optimal_size = 8 -> 4724
      [] optimal_size = 10 -> 5488
      [] optimal_size = 15 -> 6703
      [] optimal_size = 20 -> 7408

\* exp(-k * (sample_size - mid)) in ConfScale units; e^3 = 20.0855
RECURSIVE ExpTerm(_, _)
ExpTerm(sample_size, optimal_size) ==
    IF sample_size = 0 THEN 200855
    ELSE (ExpTerm(sample_size - 1, optimal_size) * ExpDecay(optimal_size)) \div ConfScale

\* a variant without the special case for no samples
ConfidenceFromSampleSizeSigmoidOnly(sample_size, optimal_size) ==
    RMin(ROne,
         Rat((ConfScale * ConfScale) \div (ConfScale + ExpTerm(sample_size, optimal_size)),
             ConfScale))

ConfidenceFromSampleSize(sample_size, optimal_size) ==
    IF sample_size = 0 THEN RZero
    ELSE RMin(ROne,
              Rat((ConfScale * ConfScale) \div (ConfScale + ExpTerm(sample_size, optimal_size)),
                  ConfScale))

ConfidenceMetric(value, confidence, sample_size, interpretation) ==
    [value |-> value, confidence |-> confidence,
     sample_size |-> sample_size, interpretation |-> interpretation]

(***************************************************************************)
(* Calibrated thresholds (THRESHOLDS) and the other literals of the        *)
(* calculators.                                                            *)
(***************************************************************************)
exploration_high == Rat(4, 10)
exploration_low == Rat(15, 100)
iteration_high == Rat(35, 100)
iteration_low == Rat(1, 10)
debug_strong == Rat(65, 100)
debug_weak == Rat(35, 100)
ai_independent == Rat(25, 100)
ai_dependent == Rat(6, 10)
\* "if delta > 10": seconds between iteration events
MeaningfulGapSeconds == 10
\* timedelta(minutes=5), in seconds
ResolutionWindowSeconds == 300
\* range(i+1, min(i+6, len)): events looked at after an explore event
LookaheadEvents == 5

(***************************************************************************)
(* AdvancedMetricsCalculator.__init__                                      *)
(***************************************************************************)
\* a variant that keeps the caller's order
NewCalculatorUnsorted(evs, interactions, problem_difficulty) ==
    [kind |-> "calculator",
     events |-> evs,
     ai_interactions |-> interactions,
     problem_difficulty |-> problem_difficulty,
     event_counts |-> CountEvents(evs)]

NewCalculator(evs, interactions, problem_difficulty) ==
    [kind |-> "calculator",
     events |-> SortedByTimestamp(evs),
     ai_interactions |-> interactions,
     problem_difficulty |-> problem_difficulty,
     event_counts |-> CountEvents(SortedByTimestamp(evs))]

(***************************************************************************)
(* calculate_exploration_score                                             *)
(***************************************************************************)
\* timestamp of the first SQL_RUN of a stream that holds one
RECURSIVE FirstSqlTime(_)
FirstSqlTime(evs) ==
    IF Head(evs).type = "SQL_RUN" THEN Head(evs).timestamp
    ELSE FirstSqlTime(Tail(evs))

\* e['timestamp'] of the first SQL_RUN, read when there are explore events,
\* raises when that event has no timestamp
ExplorationRaises(self) ==
    /\ self.event_counts["SQL_RUN"] > 0
    /\ \E k \in DOMAIN self.events : self.events[k].type \in ExplorationTypes
    /\ FirstSqlTime(self.events) = NoTime

\* a variant that also counts an explore event at the time of the first
\* SQL_RUN as early
WeightedExplorationsInclusive(self) ==
    LET exploration_events == SelectSeq(self.events, LAMBDA e : e.type \in ExplorationTypes)
        first_sql_time == FirstSqlTime(self.events)
        early_explorations ==
            CountIf(exploration_events,
                    LAMBDA e : e.timestamp # NoTime /\ e.timestamp <= first_sql_time)
    IN  Rat(3 * early_explorations + 2 * (Len(exploration_events) - early_explorations), 2)

\* early * 1.5 + (len - early), as a rational
WeightedExplorations(self) ==
    LET exploration_events == SelectSeq(self.events, LAMBDA e : e.type \in ExplorationTypes)
        first_sql_time == FirstSqlTime(self.events)
        \* e.get('timestamp', datetime.max) < first_sql_time
        early_explorations ==
            CountIf(exploration_events,
                    LAMBDA e : e.timestamp # NoTime /\ e.timestamp < first_sql_time)
    IN  Rat(3 * early_explorations + 2 * (Len(exploration_events) - early_explorations), 2)

ExplorationInterp(score) ==
    IF RLt(exploration_high, score) THEN "data_first_approach"
    ELSE IF RLt(exploration_low, score) THEN "some_exploration"
    ELSE "query_first_approach"

\* a variant that returns the score as computed
ExplorationValueUncapped(score) == score

\* value=min(score, 2.0)
ExplorationValue(score) == RMin(score, Rat(2, 1))

CalculateExplorationScore(self) ==
    LET exploration_events == SelectSeq(self.events, LAMBDA e : e.type \in ExplorationTypes)
        sql_runs == self.event_counts["SQL_RUN"]
        weighted == WeightedExplorations(self)
        \* (weighted / sql_runs) / problem_difficulty
        score == Rat(weighted[1] * self.problem_difficulty[2],
                     weighted[2] * sql_runs * self.problem_difficulty[1])
        total_activity == sql_runs + Len(exploration_events)
    IN  IF sql_runs = 0
        THEN ConfidenceMetric(RZero, RZero, 0, "no_sql_activity")
        ELSE ConfidenceMetric(ExplorationValue(score),
                              ConfidenceFromSampleSize(total_activity, 15),
                              total_activity,
                              ExplorationInterp(score))

(***************************************************************************)
(* calculate_iteration_quality                                             *)
(***************************************************************************)
\* a variant that also keeps an event exactly 10 seconds after the previous one
RECURSIVE MeaningfulIterationsInclusive(_, _)
MeaningfulIterationsInclusive(evs, last_time) ==
    IF evs = <<>> THEN 0
    ELSE LET timestamp == Head(evs).timestamp
             kept == IF last_time # NoTime /\ timestamp # NoTime
                     THEN timestamp - last_time >= MeaningfulGapSeconds
                     ELSE TRUE
         IN  (IF kept THEN 1 ELSE 0)
             + MeaningfulIterationsInclusive(Tail(evs), timestamp)

\* The filter loop: the number of events appended to meaningful_iterations
\* when the loop runs over evs starting with the given last_time.
RECURSIVE MeaningfulIterations(_, _)
MeaningfulIterations(evs, last_time) ==
    IF evs = <<>> THEN 0
    ELSE LET timestamp == Head(evs).timestamp
             kept == IF last_time # NoTime /\ timestamp # NoTime
                     THEN timestamp - last_time > MeaningfulGapSeconds
                     ELSE TRUE
         IN  (IF kept THEN 1 ELSE 0) + MeaningfulIterations(Tail(evs), timestamp)

IterationInterp(score) ==
    IF RLt(iteration_high, score) THEN "iterative_refiner"
    ELSE IF RLt(iteration_low, score) THEN "some_iteration"
    ELSE "one_shot_attempts"

CalculateIterationQuality(self) ==
    LET iteration_events == SelectSeq(self.events, LAMBDA e : e.type \in IterationTypes)
        sql_runs == IF self.event_counts["SQL_RUN"] > 1 THEN self.event_counts["SQL_RUN"] ELSE 1
        meaningful == MeaningfulIterations(iteration_events, NoTime)
        score == Rat(meaningful, sql_runs)
    IN  ConfidenceMetric(RMin(score, Rat(2, 1)),
                         ConfidenceFromSampleSize(sql_runs, 10),
                         meaningful,
                         IterationInterp(score))

(***************************************************************************)
(* calculate_debug_effectiveness                                           *)
(***************************************************************************)
\* a variant whose window includes its end point
ErrorResolvedInclusive(error, resolutions) ==
    \E k \in DOMAIN resolutions :
        /\ error.timestamp # NoTime
        /\ resolutions[k].timestamp # NoTime
        /\ error.timestamp < resolutions[k].timestamp
        /\ resolutions[k].timestamp <= error.timestamp + ResolutionWindowSeconds

\* the inner loop: some resolution lies strictly inside the error's window.
\* An error without a timestamp counts as datetime.min, whose window ends
\* before every real time; a resolution without one counts as datetime.max,
\* which lies after every window.
ErrorResolved(error, resolutions) ==
    \E k \in DOMAIN resolutions :
        /\ error.timestamp # NoTime
        /\ resolutions[k].timestamp # NoTime
        /\ error.timestamp < resolutions[k].timestamp
        /\ resolutions[k].timestamp < error.timestamp + ResolutionWindowSeconds

DebugInterp(score) ==
    IF RLt(debug_strong, score) THEN "strong_debugger"
    ELSE IF RLt(debug_weak, score) THEN "moderate_debugging"
    ELSE "struggles_with_errors"

CalculateDebugEffectiveness(self) ==
    LET errors == SelectSeq(self.events, LAMBDA e : e.type = "ERROR_OCCURRED")
        resolutions == SelectSeq(self.events, LAMBDA e : e.type = "ERROR_RESOLVED")
        resolved_count == CountIf(errors, LAMBDA e : ErrorResolved(e, resolutions))
        score == Rat(resolved_count, Len(errors))
    IN  IF errors = <<>>
        THEN ConfidenceMetric(ROne, RZero, 0, "no_errors_encountered")
        ELSE ConfidenceMetric(score,
                              ConfidenceFromSampleSize(Len(errors), 8),
                              Len(errors),
                              DebugInterp(score))

(***************************************************************************)
(* classify_ai_interactions.  A prompt is a sequence of words (joined by   *)
(* single blanks); a keyword is a sequence of words too ("what is").       *)
(***************************************************************************)
IntentLabels == {"conceptual", "hint", "debug", "code_gen", "validation", "explanation"}

HintKeywords == {<<"hint">>, <<"clue">>, <<"guide">>, <<"approach">>}
DebugKeywords == {<<"error">>, <<"bug">>, <<"wrong">>, <<"fix">>, <<"debug">>}
ExplanationKeywords == {<<"explain">>, <<"what", "is">>, <<"how", "does">>, <<"why">>}
CodeGenKeywords == {<<"write">>, <<"code">>, <<"query">>, <<"generate">>, <<"create">>}
ValidationKeywords == {<<"correct">>, <<"right">>, <<"check">>, <<"validate">>, <<"verify">>}

\* str.lower() on the words the model uses
Lower(w) ==
    CASE w = "Write" -> "write"
      [] w = "FIX" -> "fix"
      [] w = "Check" -> "check"
      [] OTHER -> w

\* the one-word keywords that occur inside a (lower-case) word
Fragments(w) ==
    CASE w = "debug" -> {"debug", "bug"}
      [] w = "debugging" -> {"debug", "bug"}
      [] w = "bright" -> {"right"}
      [] w = "guideline" -> {"guide"}
      [] OTHER -> {w}

\* "keyword in prompt" (substring test on the lower-cased prompt)
KeywordInPrompt(keyword, prompt) ==
    IF Len(keyword) = 1
    THEN \E i \in DOMAIN prompt : keyword[1] \in Fragments(Lower(prompt[i]))
    ELSE \E i \in 1..(Len(prompt) - 1) :
            /\ Lower(prompt[i]) = keyword[1]
            /\ Lower(prompt[i + 1]) = keyword[2]

AnyKeyword(keywords, prompt) == \E k \in keywords : KeywordInPrompt(k, prompt)

\* a variant that tests the debug keywords first
ClassifyPromptDebugFirst(prompt) ==
    IF AnyKeyword(DebugKeywords, prompt) THEN "debug"
    ELSE IF AnyKeyword(HintKeywords, prompt) THEN "hint"
    ELSE IF AnyKeyword(ExplanationKeywords, prompt) THEN "explanation"
    ELSE IF AnyKeyword(CodeGenKeywords, prompt) THEN "code_gen"
    ELSE IF AnyKeyword(ValidationKeywords, prompt) THEN "validation"
    ELSE "conceptual"

\* the if/elif chain of the classification loop
ClassifyPrompt(prompt) ==
    IF AnyKeyword(HintKeywords, prompt) THEN "hint"
    ELSE IF AnyKeyword(DebugKeywords, prompt) THEN "debug"
    ELSE IF AnyKeyword(ExplanationKeywords, prompt) THEN "explanation"
    ELSE IF AnyKeyword(CodeGenKeywords, prompt) THEN "code_gen"
    ELSE IF AnyKeyword(ValidationKeywords, prompt) THEN "validation"
    ELSE "conceptual"

\* a variant of ClassifyAiInteractions: an interaction stored as DEBUG_HELP is
\* counted as debug whatever its prompt says
ClassifyAiInteractionsByStoredLabel(self) ==
    [label \in IntentLabels |->
        CountIf(self.ai_interactions,
                LAMBDA i : (IF i.intent_label = "DEBUG_HELP" THEN "debug"
                            ELSE ClassifyPrompt(i.user_prompt)) = label)]

\* classifications[...] += 1 for the label the keywords of each
\* interaction.get('user_prompt', '') select
ClassifyAiInteractions(self) ==
    [label \in IntentLabels |->
        CountIf(self.ai_interactions, LAMBDA i : ClassifyPrompt(i.user_prompt) = label)]

(***************************************************************************)
(* AIHelper.classify_intent: the label the prompt handler stores with an   *)
(* interaction.                                                            *)
(***************************************************************************)
HelperLabels ==
    {"CONCEPT_HELP", "DEBUG_HELP", "APPROACH_HELP", "VALIDATION",
     "DIRECT_SOLUTION", "EXPLANATION"}

ConceptWords == {<<"what", "is">>, <<"explain">>, <<"define">>, <<"how", "does">>, <<"concept">>}
DebugWords == {<<"error">>, <<"bug">>, <<"debug">>, <<"fix">>, <<"wrong">>, <<"not", "working">>}
ApproachWords == {<<"approach">>, <<"strategy">>, <<"how", "to">>, <<"method">>, <<"technique">>}
ValidationWords == {<<"check">>, <<"validate">>, <<"correct">>, <<"verify">>, <<"review">>}
SolutionWords == {<<"solve">>, <<"solution">>, <<"answer">>, <<"complete">>, <<"finish">>}

\* a variant that tests the approach words before the debug words
ClassifyIntentApproachFirst(user_prompt) ==
    IF AnyKeyword(ConceptWords, user_prompt) THEN "CONCEPT_HELP"
    ELSE IF AnyKeyword(ApproachWords, user_prompt) THEN "APPROACH_HELP"
    ELSE IF AnyKeyword(DebugWords, user_prompt) THEN "DEBUG_HELP"
    ELSE IF AnyKeyword(ValidationWords, user_prompt) THEN "VALIDATION"
    ELSE IF AnyKeyword(SolutionWords, user_prompt) THEN "DIRECT_SOLUTION"
    ELSE "EXPLANATION"

\* the if/elif chain of classify_intent
ClassifyIntent(user_prompt) ==
    IF AnyKeyword(ConceptWords, user_prompt) THEN "CONCEPT_HELP"
    ELSE IF AnyKeyword(DebugWords, user_prompt) THEN "DEBUG_HELP"
    ELSE IF AnyKeyword(ApproachWords, user_prompt) THEN "APPROACH_HELP"
    ELSE IF AnyKeyword(ValidationWords, user_prompt) THEN "VALIDATION"
    ELSE IF AnyKeyword(SolutionWords, user_prompt) THEN "DIRECT_SOLUTION"
    ELSE "EXPLANATION"

(***************************************************************************)
(* calculate_ai_reliance                                                   *)
(***************************************************************************)
\* the no-interaction result of calculate_ai_reliance
NoAiUsageMetric == ConfidenceMetric(RZero, ROne, 0, "no_ai_usage")

\* a variant with the weights of hint and explanation exchanged
DependencyWeightSwapped(classifications) ==
    Rat(10 * classifications["code_gen"] + 7 * classifications["debug"]
        + 5 * classifications["conceptual"] + 4 * classifications["hint"]
        + 2 * classifications["validation"] + 3 * classifications["explanation"],
        10)

\* code_gen*1.0 + debug*0.7 + conceptual*0.5 + hint*0.3 + validation*0.2
\* + explanation*0.4
DependencyWeight(classifications) ==
    Rat(10 * classifications["code_gen"] + 7 * classifications["debug"]
        + 5 * classifications["conceptual"] + 3 * classifications["hint"]
        + 2 * classifications["validation"] + 4 * classifications["explanation"],
        10)

RelianceInterp(reliance_score) ==
    IF RLt(reliance_score, ai_independent) THEN "strategic_ai_usage"
    ELSE IF RLt(reliance_score, ai_dependent) THEN "moderate_ai_reliance"
    ELSE "high_ai_dependency"

CalculateAiReliance(self) ==
    LET total_prompts == Len(self.ai_interactions)
        reliance_score == RDivInt(DependencyWeight(ClassifyAiInteractions(self)), total_prompts)
    IN  IF self.ai_interactions = <<>>
        THEN NoAiUsageMetric
        ELSE ConfidenceMetric(reliance_score,
                              ConfidenceFromSampleSize(total_prompts, 10),
                              total_prompts,
                              RelianceInterp(reliance_score))

(***************************************************************************)
(* calculate_ai_collaboration_quality                                      *)
(***************************************************************************)
\* max(0, modified/used - (copied/used) * 0.5)
CollaborationScore(ai_responses_used, ai_code_modified, ai_code_copied) ==
    RMax(RZero, Rat(2 * ai_code_modified - ai_code_copied, 2 * ai_responses_used))

CollaborationInterp(collaboration_score) ==
    IF RLt(Rat(6, 10), collaboration_score) THEN "thoughtful_ai_collaboration"
    ELSE IF RLt(Rat(3, 10), collaboration_score) THEN "some_modification"
    ELSE "passive_ai_copying"

CalculateAiCollaborationQuality(self) ==
    LET ai_responses_used == self.event_counts["AI_RESPONSE_USED"]
        ai_code_modified == self.event_counts["AI_CODE_MODIFIED"]
        ai_code_copied == self.event_counts["AI_CODE_COPIED"]
        collaboration_score ==
            CollaborationScore(ai_responses_used, ai_code_modified, ai_code_copied)
    IN  IF ai_responses_used = 0
        THEN ConfidenceMetric(RZero, RZero, 0, "no_ai_code_usage")
        ELSE ConfidenceMetric(collaboration_score,
                              ConfidenceFromSampleSize(ai_responses_used, 8),
                              ai_responses_used,
                              CollaborationInterp(collaboration_score))

(***************************************************************************)
(* analyze_sql_structure.  A query text is a sequence of tokens: words,    *)
(* "(" and ")", separated by blanks.                                       *)
(***************************************************************************)
AggregateNames == {"COUNT", "SUM", "AVG", "MIN", "MAX", "STDDEV", "VARIANCE"}

\* str.upper() on the tokens the model uses
Upper(tok) ==
    CASE tok = "join" -> "JOIN"
      [] tok = "select" -> "SELECT"
      [] tok = "sum" -> "SUM"
      [] tok = "over" -> "OVER"
      [] tok = "with" -> "WITH"
      [] tok = "as" -> "AS"
      [] OTHER -> tok

UpperQuery(query) == [i \in DOMAIN query |-> Upper(query[i])]

IsWord(tok) == tok \notin {"(", ")"}

\* len(re.findall(r'\bJOIN\b', query_upper))
JoinCount(q) == CountIf(q, LAMBDA tok : tok = "JOIN")

\* a variant whose counter does not go below zero
RECURSIVE MaxNestingClamped(_, _, _)
MaxNestingClamped(q, nesting_level, max_nesting) ==
    IF q = <<>> THEN max_nesting
    ELSE IF Head(q) = "("
         THEN MaxNestingClamped(Tail(q), nesting_level + 1,
                                IF nesting_level + 1 > max_nesting THEN nesting_level + 1
                                ELSE max_nesting)
    ELSE IF Head(q) = ")"
         THEN MaxNestingClamped(Tail(q), IF nesting_level > 0 THEN nesting_level - 1 ELSE 0,
                                max_nesting)
    ELSE MaxNestingClamped(Tail(q), nesting_level, max_nesting)

\* the parenthesis loop: the largest value nesting_level takes
RECURSIVE MaxNesting(_, _, _)
MaxNesting(q, nesting_level, max_nesting) ==
    IF q = <<>> THEN max_nesting
    ELSE IF Head(q) = "("
         THEN MaxNesting(Tail(q), nesting_level + 1,
                         IF nesting_level + 1 > max_nesting THEN nesting_level + 1
                         ELSE max_nesting)
    ELSE IF Head(q) = ")"
         THEN MaxNesting(Tail(q), nesting_level - 1, max_nesting)
    ELSE MaxNesting(Tail(q), nesting_level, max_nesting)

\* len(re.findall(r'\bWITH\s+\w+\s+AS', query_upper)): matches do not overlap
RECURSIVE CteCount(_)
CteCount(q) ==
    IF Len(q) < 3 THEN 0
    ELSE IF q[1] = "WITH" /\ IsWord(q[2]) /\ q[3] \in {"AS", "ASC"}
         THEN 1 + CteCount(SubSeq(q, 4, Len(q)))
    ELSE CteCount(Tail(q))

\* matches of a word of names followed, after optional blanks, by "("
CallCount(q, names) ==
    Cardinality({i \in 1..(Len(q) - 1) : q[i] \in names /\ q[i + 1] = "("})

\* a variant whose thresholds are exclusive
ComplexityCategoryStrict(complexity) ==
    IF RLt(Rat(20, 1), complexity) THEN "expert"
    ELSE IF RLt(Rat(10, 1), complexity) THEN "advanced"
    ELSE IF RLt(Rat(5, 1), complexity) THEN "intermediate"
    ELSE "basic"

ComplexityCategory(complexity) ==
    IF RLe(Rat(20, 1), complexity) THEN "expert"
    ELSE IF RLe(Rat(10, 1), complexity) THEN "advanced"
    ELSE IF RLe(Rat(5, 1), complexity) THEN "intermediate"
    ELSE "basic"

AnalyzeSqlStructure(query) ==
    LET query_upper == UpperQuery(query)
        join_count == JoinCount(query_upper)
        max_nesting == MaxNesting(query_upper, 0, 0)
        cte_count == CteCount(query_upper)
        agg_functions == CallCount(query_upper, AggregateNames)
        window_funcs == CallCount(query_upper, {"OVER"})
        \* join*2 + nesting*3 + cte*4 + agg*1.5 + window*5
        complexity == Rat(4 * join_count + 6 * max_nesting + 8 * cte_count
                          + 3 * agg_functions + 10 * window_funcs, 2)
    IN  [complexity_score |-> complexity,
         category |-> ComplexityCategory(complexity),
         join_depth |-> join_count,
         nesting_level |-> max_nesting,
         cte_count |-> cte_count,
         aggregations |-> agg_functions,
         window_functions |-> window_funcs]

(***************************************************************************)
(* calculate_sql_complexity                                                *)
(***************************************************************************)
RECURSIVE SumComplexity(_)
SumComplexity(analyses) ==
    IF analyses = <<>> THEN Rat(0, 2)
    ELSE RAdd(Head(analyses).complexity_score, SumComplexity(Tail(analyses)))

\* a variant that may return any category that occurs
MostCommonChoicesAny(categories) ==
    {categories[i] : i \in DOMAIN categories}

\* max(set(categories), key=categories.count): the iteration order of a set
\* of strings is not fixed, so any category with the largest count may come out
MostCommonChoices(categories) ==
    LET count(c) == CountIf(categories, LAMBDA x : x = c)
        present == {categories[i] : i \in DOMAIN categories}
    IN  {c \in present : \A d \in present : count(d) <= count(c)}

\* the metric, given the category max() returned
SqlComplexityMetric(queries, most_common) ==
    LET analyses == [i \in DOMAIN queries |-> AnalyzeSqlStructure(queries[i])]
        avg_complexity == RDivInt(SumComplexity(analyses), Len(analyses))
        normalized == RMin(Rat(4, 1), RDivInt(avg_complexity, 5))
    IN  ConfidenceMetric(normalized,
                         ConfidenceFromSampleSize(Len(queries), 10),
                         Len(queries),
                         most_common)

\* every result calculate_sql_complexity can return
CalculateSqlComplexity(queries) ==
    IF queries = <<>>
    THEN {ConfidenceMetric(RZero, RZero, 0, "no_queries")}
    ELSE {SqlComplexityMetric(queries, c) :
            c \in MostCommonChoices([i \in DOMAIN queries |->
                                        AnalyzeSqlStructure(queries[i]).category])}

(***************************************************************************)
(* detect_thinking_sequences                                               *)
(***************************************************************************)
\* a variant that looks one event further
FirstSqlAfterSix(evs, i) ==
    LET window == {j \in (i + 1)..(i + LookaheadEvents + 1) :
                        j <= Len(evs) /\ evs[j].type = "SQL_RUN"}
    IN  IF window = {} THEN 0
        ELSE CHOOSE j \in window : \A k \in window : j <= k

\* the inner loop: index of the first SQL_RUN among the events after i
\* that range(i+1, min(i+6, len)) visits, 0 when there is none
FirstSqlAfter(evs, i) ==
    LET window == {j \in (i + 1)..(i + LookaheadEvents) :
                        j <= Len(evs) /\ evs[j].type = "SQL_RUN"}
    IN  IF window = {} THEN 0
        ELSE CHOOSE j \in window : \A k \in window : j <= k

\* explore_then_sql: the (explore index, SQL index) pairs, in stream order
RECURSIVE ExploreThenSql(_, _)
ExploreThenSql(evs, i) ==
    IF i > Len(evs) THEN <<>>
    ELSE IF evs[i].type \in SequenceExploreTypes /\ FirstSqlAfter(evs, i) # 0
         THEN <<<<i, FirstSqlAfter(evs, i)>>>> \o ExploreThenSql(evs, i + 1)
    ELSE ExploreThenSql(evs, i + 1)

SequencePattern(pattern_type, labels, timestamp_range, quality_score) ==
    [pattern_type |-> pattern_type, events |-> labels,
     timestamp_range |-> timestamp_range, quality_score |-> quality_score]

DataDrivenPatterns(evs) ==
    LET explore_then_sql == ExploreThenSql(evs, 1)
    IN  IF explore_then_sql = <<>> THEN <<>>
        ELSE <<SequencePattern("data_driven_approach", <<"EXPLORE", "SQL">>,
                               <<evs[explore_then_sql[1][1]].timestamp,
                                 evs[Last(explore_then_sql)[2]].timestamp>>,
                               ROne)>>

\* a variant that does not report an occurrence overlapping the previous one
RECURSIVE DependencyLoopPatternsDisjoint(_, _)
DependencyLoopPatternsDisjoint(evs, i) ==
    IF i > Len(evs) - 2 THEN <<>>
    ELSE IF /\ evs[i].type = "ERROR_OCCURRED"
            /\ evs[i + 1].type = "AI_PROMPT"
            /\ evs[i + 2].type = "ERROR_OCCURRED"
         THEN <<SequencePattern("ai_dependency_loop", <<"ERROR", "AI", "ERROR">>,
                                <<evs[i].timestamp, evs[i + 2].timestamp>>,
                                Rat(2, 10))>>
              \o DependencyLoopPatternsDisjoint(evs, i + 3)
    ELSE DependencyLoopPatternsDisjoint(evs, i + 1)

\* the dependency-loop scan from index i on
RECURSIVE DependencyLoopPatterns(_, _)
DependencyLoopPatterns(evs, i) ==
    IF i > Len(evs) - 2 THEN <<>>
    ELSE IF /\ evs[i].type = "ERROR_OCCURRED"
            /\ evs[i + 1].type = "AI_PROMPT"
            /\ evs[i + 2].type = "ERROR_OCCURRED"
         THEN <<SequencePattern("ai_dependency_loop", <<"ERROR", "AI", "ERROR">>,
                                <<evs[i].timestamp, evs[i + 2].timestamp>>,
                                Rat(2, 10))>>
              \o DependencyLoopPatterns(evs, i + 1)
    ELSE DependencyLoopPatterns(evs, i + 1)

\* explore_then_sql[0][0]['timestamp'], explore_then_sql[-1][1]['timestamp']
\* and the two timestamps read of a dependency loop raise on an event
\* without a timestamp
DetectThinkingSequencesRaises(self) ==
    LET evs == self.events
        explore_then_sql == ExploreThenSql(evs, 1)
    IN  \/ /\ explore_then_sql # <<>>
           /\ \/ evs[explore_then_sql[1][1]].timestamp = NoTime
              \/ evs[Last(explore_then_sql)[2]].timestamp = NoTime
        \/ \E i \in 1..(Len(evs) - 2) :
                /\ evs[i].type = "ERROR_OCCURRED"
                /\ evs[i + 1].type = "AI_PROMPT"
                /\ evs[i + 2].type = "ERROR_OCCURRED"
                /\ evs[i].timestamp = NoTime \/ evs[i + 2].timestamp = NoTime

DetectThinkingSequences(self) ==
    DataDrivenPatterns(self.events) \o DependencyLoopPatterns(self.events, 1)

(***************************************************************************)
(* calculate_all_metrics                                                   *)
(***************************************************************************)
\* the query texts of the SQL_RUN events that carry a non-empty one
ExtractQueries(self) ==
    LET runs == SelectSeq(self.events, LAMBDA e : e.type = "SQL_RUN" /\ e.query # <<>>)
    IN  [i \in DOMAIN runs |-> runs[i].query]

IndependenceInterp(reliance_value) ==
    IF RLt(reliance_value, Rat(4, 10)) THEN "independent"
    ELSE IF RLt(reliance_value, Rat(7, 10)) THEN "collaborative"
    ELSE "dependent"

\* a variant that takes its tier from the inverted value
IndependenceTierOfOwnValue(ai_reliance) ==
    ConfidenceMetric(RSub(ROne, ai_reliance.value),
                     ai_reliance.confidence,
                     ai_reliance.sample_size,
                     IndependenceInterp(RSub(ROne, ai_reliance.value)))

Independence(ai_reliance) ==
    ConfidenceMetric(RSub(ROne, ai_reliance.value),
                     ai_reliance.confidence,
                     ai_reliance.sample_size,
                     IndependenceInterp(ai_reliance.value))

\* a variant that averages all six calculators
OverallConfidenceOfSix(exploration, iteration, debug, ai_reliance, ai_collab, sql_complexity) ==
    RDivInt(RAdd(exploration.confidence,
                 RAdd(iteration.confidence,
                      RAdd(debug.confidence,
                           RAdd(ai_reliance.confidence,
                                RAdd(ai_collab.confidence, sql_complexity.confidence))))),
            6)

\* sum([...confidences...]) / 5
OverallConfidence(exploration, iteration, debug, ai_reliance, ai_collab, sql_complexity) ==
    RDivInt(RAdd(exploration.confidence,
                 RAdd(iteration.confidence,
                      RAdd(debug.confidence,
                           RAdd(ai_reliance.confidence, sql_complexity.confidence)))),
            5)

\* the report, given what calculate_sql_complexity returned
MetricsReport(self, sql_complexity) ==
    LET exploration == CalculateExplorationScore(self)
        iteration == CalculateIterationQuality(self)
        debug == CalculateDebugEffectiveness(self)
        ai_reliance == CalculateAiReliance(self)
        ai_collab == CalculateAiCollaborationQuality(self)
        seqs == DetectThinkingSequences(self)
    IN  [kind |-> "report",
         exploration |-> exploration,
         iteration |-> iteration,
         debugging |-> debug,
         ai_reliance |-> ai_reliance,
         ai_collaboration |-> ai_collab,
         sql_complexity |-> sql_complexity,
         independence |-> Independence(ai_reliance),
         thinking_sequences |->
            [i \in DOMAIN seqs |-> [type |-> seqs[i].pattern_type,
                                    quality |-> seqs[i].quality_score,
                                    events |-> seqs[i].events]],
         ai_intent_breakdown |-> ClassifyAiInteractions(self),
         problem_difficulty |-> self.problem_difficulty,
         overall_confidence |->
            OverallConfidence(exploration, iteration, debug, ai_reliance,
                              ai_collab, sql_complexity)]

\* every outcome of calculate_all_metrics: a report, or the KeyError of
\* calculate_exploration_score or detect_thinking_sequences
CalculateAllMetrics(self) ==
    IF ExplorationRaises(self) \/ DetectThinkingSequencesRaises(self)
    THEN {RaisedKeyError}
    ELSE {MetricsReport(self, m) : m \in CalculateSqlComplexity(ExtractQueries(self))}

(***************************************************************************)
(* MultiModelAI (backend/langchain_config.py) and AIHelper                 *)
(* (backend/ai_helper.py): the configured models, the generation loop and  *)
(* the conversation history.  A call in progress is a frame of calls       *)
(* holding its arguments, its locals and its position (pc).                *)
(***************************************************************************)
SessionIds == {"s1", "s2"}
\* session_id=None
NoSessionId == "None"

\* the lists _init_models can leave in self.models: Ollama first, Gemini second
ModelLists == {<<>>, <<"ollama">>, <<"gemini">>, <<"ollama", "gemini">>}

\* max_retries: int = 2
DefaultMaxRetries == 2
\* len(self.conversation_history[session_id]) > 20
HistoryLimit == 20

NoEngine == [kind |-> "none"]
MultiModelAI(models) == [kind |-> "engine", models |-> models]

\* AIHelper.__init__ when get_ai_engine() raises: no engine, an empty history
NewAIHelper ==
    [ai_engine |-> NoEngine, conversation_history |-> [s \in {} |-> <<>>]]

\* texts: a prompt, what a model answered to it, and the three fixed strings
Prompt(text) == [kind |-> "prompt", text |-> text]
ModelResponse(model, user_prompt) ==
    [kind |-> "response", model |-> model, to |-> user_prompt]
\* "AI service temporarily unavailable. Please try again."
ServiceUnavailable == [kind |-> "fixed", text |-> "temporarily unavailable"]
\* "AI service unavailable. Please contact support."
NoModelsAvailable == [kind |-> "fixed", text |-> "unavailable"]
\* "I'm experiencing technical difficulties. Please try again in a moment."
TechnicalDifficulties == [kind |-> "fixed", text |-> "technical difficulties"]
NoResponse == [kind |-> "none"]

Message(role, content) == [role |-> role, content |-> content]

NoCalls == [c \in {} |-> NoResponse]

\* a plain return, not an HTTP response
Returned == 0

\* what a finished call hands back
Reply(handler, session_id, status, value) ==
    [kind |-> "reply", handler |-> handler, session_id |-> session_id,
     status |-> status, value |-> value]

NoReply == [Reply("", NoSessionId, Returned, NoResponse) EXCEPT !.kind = "none"]

\* the frame of a call that has just been entered
Call(handler, session_id, user_prompt, mode, max_retries) ==
    [handler |-> handler, session_id |-> session_id, user_prompt |-> user_prompt,
     mode |-> mode, max_retries |-> max_retries, pc |-> "start",
     model_idx |-> 0, attempt |-> 0, invoked |-> <<>>, response |-> NoResponse,
     intent |-> "", next_seq |-> 0, event_type |-> "", metadata |-> <<>>,
     interaction_id |-> 0]

Put(frames, call, frame) ==
    [c \in DOMAIN frames \cup {call} |-> IF c = call THEN frame ELSE frames[c]]

Drop(frames, call) == [c \in DOMAIN frames \ {call} |-> frames[c]]

\* generate up to its first invocation: no model configured, or the loops
\* over self.models and range(max_retries) are entered
EnterGenerate(frame, models) ==
    IF models = <<>>
    THEN [frame EXCEPT !.response = NoModelsAvailable, !.pc = "generated"]
    ELSE IF frame.max_retries <= 0
    THEN [frame EXCEPT !.response = TechnicalDifficulties, !.pc = "generated"]
    ELSE [frame EXCEPT !.model_idx = 1, !.attempt = 0, !.pc = "invoke"]

\* a variant of AfterInvoke: a failed attempt is not retried, the next model
\* follows at once
AfterInvokeSkipsRetry(frame, models, outcome) ==
    LET model == models[frame.model_idx]
        tried == [frame EXCEPT
                    !.invoked = Append(@, [model |-> model, attempt |-> frame.attempt,
                                           outcome |-> outcome])]
    IN  IF outcome = "ok"
        THEN [tried EXCEPT !.response = ModelResponse(model, frame.user_prompt),
                           !.pc = "generated"]
        ELSE IF frame.model_idx < Len(models)
        THEN [tried EXCEPT !.model_idx = @ + 1, !.attempt = 0]
        ELSE [tried EXCEPT !.response = TechnicalDifficulties, !.pc = "generated"]

\* one pass of the inner loop: the model is invoked; its response is returned,
\* or the exception is caught and the next attempt, the next model or the
\* final return follows
AfterInvoke(frame, models, outcome) ==
    LET model == models[frame.model_idx]
        tried == [frame EXCEPT
                    !.invoked = Append(@, [model |-> model, attempt |-> frame.attempt,
                                           outcome |-> outcome])]
    IN  IF outcome = "ok"
        THEN [tried EXCEPT !.response = ModelResponse(model, frame.user_prompt),
                           !.pc = "generated"]
        ELSE IF frame.attempt < frame.max_retries - 1
        THEN [tried EXCEPT !.attempt = @ + 1]
        ELSE IF frame.model_idx < Len(models)
        THEN [tried EXCEPT !.model_idx = @ + 1, !.attempt = 0]
        ELSE [tried EXCEPT !.response = TechnicalDifficulties, !.pc = "generated"]

\* self.conversation_history.get(session_id, [])
HistoryOf(history, session_id) ==
    IF session_id \in DOMAIN history THEN history[session_id] ELSE <<>>

\* a variant of UpdateHistory: the oldest 20 messages are kept
UpdateHistoryKeepsOldest(history, session_id, user_prompt, response) ==
    IF session_id = NoSessionId THEN history
    ELSE LET all == HistoryOf(history, session_id)
                        \o <<Message("user", Prompt(user_prompt)),
                             Message("assistant", response)>>
             kept == IF Len(all) > HistoryLimit
                     THEN SubSeq(all, 1, HistoryLimit)
                     ELSE all
         IN  Put(history, session_id, kept)

\* the history update of process_prompt: the exchange is appended to the
\* session's list and the list is cut to its last 20 messages
UpdateHistory(history, session_id, user_prompt, response) ==
    IF session_id = NoSessionId THEN history
    ELSE LET all == HistoryOf(history, session_id)
                        \o <<Message("user", Prompt(user_prompt)),
                             Message("assistant", response)>>
             kept == IF Len(all) > HistoryLimit
                     THEN SubSeq(all, Len(all) - HistoryLimit + 1, Len(all))
                     ELSE all
         IN  Put(history, session_id, kept)

(***************************************************************************)
(* The database (backend/models.py, backend/database.py).                  *)
(***************************************************************************)
\* create_tables() on a fresh file: no rows
EmptyDatabase == [sessions |-> {}, events |-> <<>>, ai_interactions |-> <<>>]

\* the attributes class Session maps (its columns and relationships)
SessionColumns ==
    {"session_id", "candidate_name", "interviewer_name", "problem_statement",
     "start_time", "end_time", "status", "session_data",
     "events", "ai_interactions", "features"}

\* reading session.<name> raises AttributeError, and Session(<name>=...) raises
\* TypeError, for a name the class does not map
Unmapped(name) == name \notin SessionColumns

\* the attributes of a Session row the handlers look at, with their values
\* after the insert
NewSessionAttrs ==
    [name \in {"status", "end_time", "phase", "submitted_at"} \cap SessionColumns |->
        CASE name = "status" -> "active"
          [] name = "phase" -> "coding"
          [] OTHER -> "None"]

SessionRow(session_id, attrs) == [session_id |-> session_id, attrs |-> attrs]

\* db.query(SessionModel).filter(SessionModel.session_id == session_id).first()
HasSession(database, session_id) ==
    \E row \in database.sessions : row.session_id = session_id

FindSession(database, session_id) ==
    CHOOSE row \in database.sessions : row.session_id = session_id

\* session.<name> = value followed by a commit: an attribute the class does
\* not map is not written to the row
SetSessionAttrs(database, session_id, changes) ==
    [database EXCEPT !.sessions =
        {IF row.session_id = session_id
         THEN [row EXCEPT !.attrs =
                    [name \in DOMAIN row.attrs |->
                        IF name \in DOMAIN changes THEN changes[name]
                        ELSE row.attrs[name]]]
         ELSE row : row \in database.sessions}]

\* an Event row; its timestamp column defaults to the time of the insert
EventRow(session_id, event_type, metadata, sequence_number, timestamp) ==
    [session_id |-> session_id, event_type |-> event_type, metadata |-> metadata,
     sequence_number |-> sequence_number, timestamp |-> timestamp]

\* the events of a session, in the order of the table
SessionEvents(database, session_id) ==
    SelectSeq(database.events, LAMBDA e : e.session_id = session_id)

\* last_event = ...order_by(Event.sequence_number.desc()).first();
\* (last_event.sequence_number + 1) if last_event else 1
NextSequence(database, session_id) ==
    LET mine == SessionEvents(database, session_id)
        numbers == {mine[i].sequence_number : i \in DOMAIN mine}
    IN  IF mine = <<>> THEN 1
        ELSE (CHOOSE n \in numbers : \A m \in numbers : m <= n) + 1

\* db.add(...) of the rows and db.commit(): the rows are appended, stamped in
\* the order of their insertion
RECURSIVE InsertEvents(_, _)
InsertEvents(database, rows) ==
    IF rows = <<>> THEN database
    ELSE InsertEvents(
            [database EXCEPT !.events =
                Append(@, [Head(rows) EXCEPT !.timestamp = Len(database.events)])],
            Tail(rows))

\* ...filter(Event.session_id == session_id, Event.event_type == event_type).count()
CountSessionEvents(database, session_id, event_type) ==
    Len(SelectSeq(database.events,
                  LAMBDA e : e.session_id = session_id /\ e.event_type = event_type))

\* HTTP status codes of the replies
Ok == 200
NotFound == 404
BadRequest == 400
ServerError == 500

\* should_complete = interview_questions >= 5
QuestionLimit == 5

(***************************************************************************)
(* The session and its analysis.                                           *)
(***************************************************************************)
Init ==
    /\ events = <<>>
    /\ ai_interactions = <<>>
    /\ calc = NoCalc
    /\ report = NoReport
    /\ sequences = NoSequences
    /\ helper_result = NoResult
    /\ query_text = <<>>
    /\ ai_helper = NewAIHelper
    /\ db = EmptyDatabase
    /\ calls = NoCalls
    /\ reply = NoReply

\* Event.timestamp defaults to datetime.utcnow() at insertion: an event is
\* stamped gap seconds after the one logged before it.
NextTimestamp(gap) ==
    IF events = <<>> THEN 0 ELSE Last(events).timestamp + gap

\* one more event in the list the analyzer hands to the calculator
AddEvent(type, gap, query, limit) ==
    /\ calc = NoCalc
    /\ Len(events) < limit
    /\ events' = Append(events, Event(type, NextTimestamp(gap), query))
    /\ UNCHANGED <<ai_interactions, calc, report, sequences, helper_result, query_text,
                 ai_helper, db, calls, reply>>

\* one more event in a list a caller builds in an order of its own choosing
SupplyEvent(type, timestamp, query, limit) ==
    /\ calc = NoCalc
    /\ Len(events) < limit
    /\ events' = Append(events, Event(type, timestamp, query))
    /\ UNCHANGED <<ai_interactions, calc, report, sequences, helper_result, query_text,
                 ai_helper, db, calls, reply>>

\* one more interaction in the list the analyzer hands to the calculator: the
\* row the prompt handler stored, with the label classify_intent gave it
AddInteraction(user_prompt, limit) ==
    /\ calc = NoCalc
    /\ Len(ai_interactions) < limit
    /\ ai_interactions' =
            Append(ai_interactions, Interaction(user_prompt, ClassifyIntent(user_prompt)))
    /\ UNCHANGED <<events, calc, report, sequences, helper_result, query_text,
                 ai_helper, db, calls, reply>>

\* one more interaction in a list whose intent_label entries are whatever the
\* caller of the calculator put there
StoreInteraction(user_prompt, intent_label, limit) ==
    /\ calc = NoCalc
    /\ Len(ai_interactions) < limit
    /\ ai_interactions' = Append(ai_interactions, Interaction(user_prompt, intent_label))
    /\ UNCHANGED <<events, calc, report, sequences, helper_result, query_text,
                   ai_helper, db, calls, reply>>

\* AdvancedMetricsCalculator(events=..., ai_interactions=..., problem_difficulty=...)
Construct(problem_difficulty) ==
    /\ calc = NoCalc
    /\ calc' = NewCalculator(events, ai_interactions, problem_difficulty)
    /\ UNCHANGED <<events, ai_interactions, report, sequences, helper_result, query_text,
                 ai_helper, db, calls, reply>>

\* calculator.calculate_all_metrics()
CallCalculateAllMetrics ==
    /\ calc # NoCalc
    /\ report = NoReport
    /\ report' \in CalculateAllMetrics(calc)
    /\ UNCHANGED <<events, ai_interactions, calc, sequences, helper_result, query_text,
                 ai_helper, db, calls, reply>>

\* calculator.detect_thinking_sequences()
CallDetectThinkingSequences ==
    /\ calc # NoCalc
    /\ sequences = NoSequences
    /\ sequences' =
            IF DetectThinkingSequencesRaises(calc) THEN RaisedKeyError
            ELSE [kind |-> "patterns", patterns |-> DetectThinkingSequences(calc)]
    /\ UNCHANGED <<events, ai_interactions, calc, report, helper_result, query_text,
                 ai_helper, db, calls, reply>>

\* the pieces of a text, one after the other
RECURSIVE Concat(_)
Concat(pieces) ==
    IF pieces = <<>> THEN <<>> ELSE Head(pieces) \o Concat(Tail(pieces))

\* one more piece of the query text that will be analysed
TypeFragment(fragment, limit) ==
    /\ calc # NoCalc
    /\ helper_result = NoResult
    /\ Len(query_text) < limit
    /\ query_text' = Append(query_text, fragment)
    /\ UNCHANGED <<events, ai_interactions, calc, report, sequences, helper_result,
                 ai_helper, db, calls, reply>>

\* calculator.analyze_sql_structure(query)
CallAnalyzeSqlStructure ==
    /\ calc # NoCalc
    /\ helper_result = NoResult
    /\ helper_result' =
            [kind |-> "analysis", query |-> Concat(query_text),
             result |-> AnalyzeSqlStructure(Concat(query_text))]
    /\ UNCHANGED <<events, ai_interactions, calc, report, sequences, query_text,
                 ai_helper, db, calls, reply>>

\* calculator._confidence_from_sample_size(sample_size, optimal_size)
CallConfidenceFromSampleSize(sample_size, optimal_size) ==
    /\ calc # NoCalc
    /\ helper_result = NoResult
    /\ helper_result' =
            [kind |-> "confidence", sample_size |-> sample_size,
             optimal_size |-> optimal_size,
             value |-> ConfidenceFromSampleSize(sample_size, optimal_size)]
    /\ UNCHANGED <<events, ai_interactions, calc, report, sequences, query_text,
                 ai_helper, db, calls, reply>>

\* the models of the engine the helper holds
Models == ai_helper.ai_engine.models

\* init_ai_engine(...) followed by AIHelper(): the helper holds an engine with
\* the models _init_models could reach
InitAiEngine(models) ==
    /\ ai_helper = NewAIHelper
    /\ calls = NoCalls
    /\ reply = NoReply
    /\ ai_helper' = [ai_helper EXCEPT !.ai_engine = MultiModelAI(models)]
    /\ UNCHANGED <<db, calls, reply>>
    /\ UNCHANGED analysis_vars

\* ai_engine.generate(system_prompt, user_message, max_retries=max_retries)
GenerateBegin(call, user_prompt, max_retries) ==
    /\ ai_helper.ai_engine # NoEngine
    /\ call \notin DOMAIN calls
    /\ calls' = Put(calls, call,
                    EnterGenerate(Call("generate", NoSessionId, user_prompt, "coding",
                                       max_retries), Models))
    /\ UNCHANGED <<ai_helper, db, reply>>
    /\ UNCHANGED analysis_vars

\* model_info["client"].invoke(...) returns (outcome "ok") or raises
Invoke(call, outcome) ==
    /\ call \in DOMAIN calls
    /\ calls[call].pc = "invoke"
    /\ calls' = [calls EXCEPT ![call] = AfterInvoke(@, Models, outcome)]
    /\ UNCHANGED <<ai_helper, db, reply>>
    /\ UNCHANGED analysis_vars

\* generate returns to its caller
GenerateReturn(call) ==
    /\ call \in DOMAIN calls
    /\ calls[call].handler = "generate"
    /\ calls[call].pc = "generated"
    /\ reply' = [kind |-> "generated", handler |-> "generate",
                 session_id |-> NoSessionId, status |-> Returned,
                 value |-> calls[call].response, models |-> Models,
                 max_retries |-> calls[call].max_retries,
                 invoked |-> calls[call].invoked]
    /\ calls' = Drop(calls, call)
    /\ UNCHANGED <<ai_helper, db>>
    /\ UNCHANGED analysis_vars

\* ai_helper.process_prompt(user_prompt, context_data, session_id, mode) up to
\* the call of generate; without an engine it returns at once
ProcessPromptBegin(call, user_prompt, session_id, mode) ==
    /\ call \notin DOMAIN calls
    /\ IF ai_helper.ai_engine = NoEngine
       THEN /\ reply' = Reply("process_prompt", session_id, Returned, ServiceUnavailable)
            /\ UNCHANGED calls
       ELSE /\ calls' = Put(calls, call,
                            EnterGenerate(Call("process_prompt", session_id, user_prompt,
                                               mode, DefaultMaxRetries), Models))
            /\ UNCHANGED reply
    /\ UNCHANGED <<ai_helper, db>>
    /\ UNCHANGED analysis_vars

\* process_prompt after generate returned: the history update and the return
ProcessPromptReturn(call) ==
    /\ call \in DOMAIN calls
    /\ calls[call].handler = "process_prompt"
    /\ calls[call].pc = "generated"
    /\ ai_helper' =
            [ai_helper EXCEPT !.conversation_history =
                UpdateHistory(@, calls[call].session_id, calls[call].user_prompt,
                              calls[call].response)]
    /\ reply' = Reply("process_prompt", calls[call].session_id, Returned,
                      calls[call].response)
    /\ calls' = Drop(calls, call)
    /\ UNCHANGED db
    /\ UNCHANGED analysis_vars

\* ai_helper.clear_history(session_id)
ClearHistory(session_id) ==
    /\ calls = NoCalls
    /\ ai_helper' = [ai_helper EXCEPT !.conversation_history = Drop(@, session_id)]
    /\ reply' = Reply("clear_history", session_id, Returned, NoResponse)
    /\ UNCHANGED <<db, calls>>
    /\ UNCHANGED analysis_vars

(***************************************************************************)
(* The HTTP handlers (backend/main.py).  A handler that logs events is     *)
(* entered in one step, which ends with its query for the session's last   *)
(* event, and left in another, which adds its rows and commits.            *)
(***************************************************************************)
\* POST /api/sessions: Session(..., problem_id=problem_id, ...) raises TypeError
\* unless the class maps problem_id; the handler answers 500 then
CreateSession(session_id) ==
    /\ ~HasSession(db, session_id)
    /\ IF Unmapped("problem_id")
       THEN /\ reply' = Reply("create_session", session_id, ServerError, NoResponse)
            /\ UNCHANGED db
       ELSE /\ db' = InsertEvents(
                        [db EXCEPT !.sessions =
                            @ \cup {SessionRow(session_id, NewSessionAttrs)}],
                        <<EventRow(session_id, "SESSION_START", <<>>, 1, 0)>>)
            /\ reply' = Reply("create_session", session_id, Ok, NoResponse)
    /\ UNCHANGED <<ai_helper, calls>>
    /\ UNCHANGED analysis_vars

\* POST /api/events up to next_sequence
LogEventRead(call, session_id, event_type, metadata) ==
    /\ call \notin DOMAIN calls
    /\ calls' = Put(calls, call,
                    [Call("log_event", session_id, <<>>, "", 0) EXCEPT
                        !.event_type = event_type,
                        !.metadata = metadata,
                        !.next_seq = NextSequence(db, session_id),
                        !.pc = "write"])
    /\ UNCHANGED <<ai_helper, db, reply>>
    /\ UNCHANGED analysis_vars

\* POST /api/events from db.add(new_event) on
LogEventWrite(call) ==
    /\ call \in DOMAIN calls
    /\ calls[call].handler = "log_event"
    /\ calls[call].pc = "write"
    /\ db' = InsertEvents(db, <<EventRow(calls[call].session_id, calls[call].event_type,
                                         calls[call].metadata, calls[call].next_seq, 0)>>)
    /\ reply' = Reply("log_event", calls[call].session_id, Ok, NoResponse)
    /\ calls' = Drop(calls, call)
    /\ UNCHANGED ai_helper
    /\ UNCHANGED analysis_vars

\* POST /api/ai/prompt up to the call of generate inside process_prompt; the
\* read of session.problem_id raises for a session that has a row
AiPromptBegin(call, session_id, user_prompt, mode) ==
    /\ call \notin DOMAIN calls
    /\ IF HasSession(db, session_id) /\ Unmapped("problem_id")
       THEN /\ reply' = Reply("ai_prompt", session_id, ServerError, NoResponse)
            /\ UNCHANGED calls
       ELSE /\ calls' =
                Put(calls, call,
                    IF ai_helper.ai_engine = NoEngine
                    THEN [Call("ai_prompt", session_id, user_prompt, mode,
                               DefaultMaxRetries)
                            EXCEPT !.response = ServiceUnavailable, !.pc = "generated"]
                    ELSE EnterGenerate(Call("ai_prompt", session_id, user_prompt, mode,
                                            DefaultMaxRetries), Models))
            /\ UNCHANGED reply
    /\ UNCHANGED <<ai_helper, db>>
    /\ UNCHANGED analysis_vars

\* POST /api/ai/prompt from the return of generate to next_seq: process_prompt
\* updates the history, the intent is classified, the last event is queried
AiPromptRead(call) ==
    /\ call \in DOMAIN calls
    /\ calls[call].handler = "ai_prompt"
    /\ calls[call].pc = "generated"
    /\ ai_helper' =
            IF ai_helper.ai_engine = NoEngine THEN ai_helper
            ELSE [ai_helper EXCEPT !.conversation_history =
                    UpdateHistory(@, calls[call].session_id, calls[call].user_prompt,
                                  calls[call].response)]
    /\ calls' = [calls EXCEPT
                    ![call].intent = ClassifyIntent(calls[call].user_prompt),
                    ![call].next_seq = NextSequence(db, calls[call].session_id),
                    ![call].pc = "write"]
    /\ UNCHANGED <<db, reply>>
    /\ UNCHANGED analysis_vars

\* the two events of a prompt: the answer and the next question, or the
\* completion once QuestionLimit questions exist, in interview mode; the prompt
\* and the response in coding mode
PromptEvents(database, frame) ==
    LET questions == CountSessionEvents(database, frame.session_id, "INTERVIEW_QUESTION")
    IN  IF frame.mode = "interview"
        THEN <<EventRow(frame.session_id, "INTERVIEW_ANSWER", <<>>, frame.next_seq, 0),
               IF questions >= QuestionLimit
               THEN EventRow(frame.session_id, "INTERVIEW_COMPLETED",
                             [total_questions |-> questions], frame.next_seq + 1, 0)
               ELSE EventRow(frame.session_id, "INTERVIEW_QUESTION",
                             [question_number |-> questions + 1], frame.next_seq + 1, 0)>>
        ELSE <<EventRow(frame.session_id, "AI_PROMPT", <<>>, frame.next_seq, 0),
               EventRow(frame.session_id, "AI_RESPONSE", <<>>, frame.next_seq + 1, 0)>>

\* the session update of a completed interview: made only if the session has a
\* row; the phase reaches the row only if the class maps it
CompleteInterview(database, frame) ==
    IF /\ frame.mode = "interview"
       /\ CountSessionEvents(database, frame.session_id, "INTERVIEW_QUESTION")
            >= QuestionLimit
       /\ HasSession(database, frame.session_id)
    THEN SetSessionAttrs(database, frame.session_id,
                         [phase |-> "completed", end_time |-> "now"])
    ELSE database

\* POST /api/ai/prompt from the events on: the interaction and the two events
\* are added and committed
AiPromptWrite(call) ==
    /\ call \in DOMAIN calls
    /\ calls[call].handler = "ai_prompt"
    /\ calls[call].pc = "write"
    /\ db' = [InsertEvents(CompleteInterview(db, calls[call]),
                           PromptEvents(db, calls[call]))
                EXCEPT !.ai_interactions =
                    Append(@, [interaction_id |-> Len(@) + 1,
                               session_id |-> calls[call].session_id,
                               user_prompt |-> calls[call].user_prompt,
                               ai_response |-> calls[call].response,
                               intent_label |-> calls[call].intent,
                               response_used |-> FALSE])]
    /\ reply' = Reply("ai_prompt", calls[call].session_id, Ok,
                      IF /\ calls[call].mode = "interview"
                         /\ CountSessionEvents(db, calls[call].session_id,
                                               "INTERVIEW_QUESTION") >= QuestionLimit
                      THEN [kind |-> "fixed", text |-> "interview complete"]
                      ELSE calls[call].response)
    /\ calls' = Drop(calls, call)
    /\ UNCHANGED ai_helper
    /\ UNCHANGED analysis_vars

\* POST /api/ai/response-used up to next_seq; without the interaction the
\* handler answers 404
MarkResponseUsedRead(call, interaction_id) ==
    /\ call \notin DOMAIN calls
    /\ IF interaction_id \notin DOMAIN db.ai_interactions
       THEN /\ reply' = Reply("mark_response_used", NoSessionId, NotFound, NoResponse)
            /\ UNCHANGED calls
       ELSE /\ calls' =
                LET session_id == db.ai_interactions[interaction_id].session_id
                IN  Put(calls, call,
                        [Call("mark_response_used", session_id, <<>>, "", 0) EXCEPT
                            !.interaction_id = interaction_id,
                            !.next_seq = NextSequence(db, session_id),
                            !.pc = "write"])
            /\ UNCHANGED reply
    /\ UNCHANGED <<ai_helper, db>>
    /\ UNCHANGED analysis_vars

\* POST /api/ai/response-used from the usage event on
MarkResponseUsedWrite(call) ==
    /\ call \in DOMAIN calls
    /\ calls[call].handler = "mark_response_used"
    /\ calls[call].pc = "write"
    /\ db' = InsertEvents(
                [db EXCEPT !.ai_interactions[calls[call].interaction_id].response_used = TRUE],
                <<EventRow(calls[call].session_id, "AI_RESPONSE_USED",
                           [interaction_id |-> calls[call].interaction_id],
                           calls[call].next_seq, 0)>>)
    /\ reply' = Reply("mark_response_used", calls[call].session_id, Ok, NoResponse)
    /\ calls' = Drop(calls, call)
    /\ UNCHANGED ai_helper
    /\ UNCHANGED analysis_vars

\* POST /api/sessions/{session_id}/submit.  Every exception raised inside the
\* try block, the HTTPException of an unknown session or of a wrong phase
\* included, is caught by "except Exception" and answered with status 500 after
\* a rollback; the read of session.phase raises AttributeError unless the class
\* maps it.
SubmitCodingPhase(session_id) ==
    /\ calls = NoCalls
    /\ IF \/ ~HasSession(db, session_id)
          \/ Unmapped("phase")
          \/ FindSession(db, session_id).attrs["phase"] # "coding"
       THEN /\ reply' = Reply("submit_coding_phase", session_id, ServerError, NoResponse)
            /\ UNCHANGED db
       ELSE /\ db' =
                LET next_seq == NextSequence(db, session_id)
                IN  InsertEvents(
                        SetSessionAttrs(db, session_id,
                                        [phase |-> "interview", submitted_at |-> "now"]),
                        <<EventRow(session_id, "PHASE_SUBMITTED", <<>>, next_seq, 0),
                          EventRow(session_id, "INTERVIEW_STARTED", <<>>, next_seq + 1, 0),
                          EventRow(session_id, "INTERVIEW_QUESTION",
                                   [question_number |-> 1], next_seq + 2, 0)>>)
            /\ reply' = Reply("submit_coding_phase", session_id, Ok, NoResponse)
    /\ UNCHANGED <<ai_helper, calls>>
    /\ UNCHANGED analysis_vars

\* POST /api/execute-sql up to next_sequence.  For a session that has a row the
\* read of session.problem_id raises and the handler returns its error
\* response; a request without session_id logs nothing.  Successful and failed
\* executions are both logged, with the text under the key query_text.
ExecuteSqlRead(call, session_id, code, success) ==
    /\ call \notin DOMAIN calls
    /\ IF \/ HasSession(db, session_id) /\ Unmapped("problem_id")
          \/ session_id = NoSessionId
       THEN /\ reply' = Reply("execute_sql_code", session_id, Ok, NoResponse)
            /\ UNCHANGED calls
       ELSE /\ calls' = Put(calls, call,
                            [Call("execute_sql_code", session_id, <<>>, "", 0) EXCEPT
                                !.event_type = "SQL_RUN",
                                !.metadata = [query_text |-> code, success |-> success],
                                !.next_seq = NextSequence(db, session_id),
                                !.pc = "write"])
            /\ UNCHANGED reply
    /\ UNCHANGED <<ai_helper, db>>
    /\ UNCHANGED analysis_vars

\* POST /api/execute-sql from db.add(sql_event) on
ExecuteSqlWrite(call) ==
    /\ call \in DOMAIN calls
    /\ calls[call].handler = "execute_sql_code"
    /\ calls[call].pc = "write"
    /\ db' = InsertEvents(db, <<EventRow(calls[call].session_id, "SQL_RUN",
                                         calls[call].metadata, calls[call].next_seq, 0)>>)
    /\ reply' = Reply("execute_sql_code", calls[call].session_id, Ok, NoResponse)
    /\ calls' = Drop(calls, call)
    /\ UNCHANGED ai_helper
    /\ UNCHANGED analysis_vars

\* e.event_metadata.get('query', '') of the dictionary the analyzer hands on
MetadataQuery(metadata) ==
    IF "query" \in DOMAIN metadata THEN metadata["query"] ELSE <<>>

\* BehaviorAnalyzer._build_analysis_context over the rows of a session: the
\* event and interaction dictionaries and the calculator built from them
BuildAnalysisContext(session_id) ==
    /\ calc = NoCalc
    /\ calls = NoCalls
    /\ events' =
            LET rows == SessionEvents(db, session_id)
            IN  [i \in DOMAIN rows |->
                    Event(rows[i].event_type, rows[i].timestamp,
                          MetadataQuery(rows[i].metadata))]
    /\ ai_interactions' =
            LET rows == SelectSeq(db.ai_interactions, LAMBDA a : a.session_id = session_id)
            IN  [i \in DOMAIN rows |-> Interaction(rows[i].user_prompt, rows[i].intent_label)]
    /\ calc' = NewCalculator(events', ai_interactions', Rat(1, 1))
    /\ UNCHANGED <<report, sequences, helper_result, query_text>>
    /\ UNCHANGED server_vars

(***************************************************************************)
(* Inputs of the specifications.                                           *)
(***************************************************************************)
\* WITH t AS ( select SUM ( x ) OVER ( ) join u JOIN v ): score 20.5
HeavyQuery ==
    <<"WITH", "t", "AS", "(", "select", "SUM", "(", "x", ")", "OVER", "(", ")",
      "join", "u", "JOIN", "v", ")">>

SimpleQuery == <<"SELECT", "1">>

Medium == Rat(1, 1)
Difficulties == {Rat(1, 2), Medium}
\* problem_difficulty 1.5 = hard
Hard == Rat(3, 2)

\* mixed sessions: <<type, query>>, logged 15 s apart
MixedEvents ==
    {<<"SCHEMA_EXPLORED", <<>>>>, <<"SQL_RUN", <<>>>>, <<"SQL_RUN", HeavyQuery>>,
     <<"SQL_RUN", SimpleQuery>>, <<"QUERY_MODIFIED", <<>>>>, <<"ERROR_OCCURRED", <<>>>>,
     <<"AI_RESPONSE_USED", <<>>>>}
MixedGaps == {15}
MixedPrompts == {<<"Write", "it">>}

IterationEventTypes == {"QUERY_MODIFIED", "SQL_RUN"}
IterationGaps == {5, 6, 10, 11}

DebugEventTypes == {"ERROR_OCCURRED", "ERROR_RESOLVED"}
DebugGaps == {0, 240, 300, 360}

ExploreEventTypes == {"SCHEMA_EXPLORED", "SQL_RUN", "CODE_EDIT"}
LoopEventTypes == {"ERROR_OCCURRED", "AI_PROMPT", "CODE_EDIT"}
CollabEventTypes == {"AI_RESPONSE_USED", "AI_CODE_MODIFIED", "AI_CODE_COPIED"}

\* one prompt per intent: hint, debug, explanation, code_gen, validation, conceptual
ReliancePrompts ==
    {<<"a", "hint">>, <<"FIX", "it">>, <<"what", "is", "this">>,
     <<"Write", "it">>, <<"Check", "this">>, <<"joins">>}

\* prompts matching one, several or none of the keyword lists; <<>> is the
\* '' that interaction.get('user_prompt', '') gives for a missing prompt
ClassifyPrompts ==
    {<<"a", "hint">>, <<"FIX", "the", "hint">>, <<"why", "Write", "code">>,
     <<"Check", "the", "query">>, <<"debugging", "what", "is", "wrong">>,
     <<"joins">>, <<>>}

\* events a caller supplies in any order, at any of three times
OrderEvents ==
    {<<"SCHEMA_EXPLORED", <<>>>>, <<"SQL_RUN", SimpleQuery>>, <<"QUERY_MODIFIED", <<>>>>}
OrderTimestamps == {0, 8, 20}

\* events with and without a timestamp; none carries metadata
MalformedEventTypes ==
    {"SCHEMA_EXPLORED", "SQL_RUN", "ERROR_OCCURRED", "ERROR_RESOLVED", "AI_PROMPT"}
MalformedTimestamps == {NoTime, 10, 20}

\* pieces of query text; a query is up to MaxQueryFragments of them in a row
SqlFragments ==
    {SimpleQuery, <<"join", "u">>, <<"JOINS">>, <<"WITH", "t", "AS">>, <<"(">>, <<")">>,
     <<"SUM", "(", "x", ")">>, <<"OVER", "(", ")">>}

\* ( join u ): score 5, intermediate
IntermediateQuery == <<"(", "join", "u", ")">>
\* WITH t AS SUM ( x ) OVER ( ): score 13.5, advanced
AdvancedQuery == <<"WITH", "t", "AS", "SUM", "(", "x", ")", "OVER", "(", ")">>
\* the query texts of the SQL runs; <<>> is a run without a query text
RunQueries == {<<>>, SimpleQuery, IntermediateQuery, AdvancedQuery, HeavyQuery}

\* the optimal_size arguments in use: debugging and collaboration 8,
\* iteration, reliance and SQL complexity 10, exploration 15, the default 20
OptimalSizes == {8, 10, 15, 20}

\* explore events and SQL runs, at the time of the event before or 15 s later
ScoreEventTypes == {"SCHEMA_EXPLORED", "DATA_QUALITY_CHECKED", "SQL_RUN"}
ScoreGaps == {0, 15}

\* iteration events and SQL runs, without a timestamp or at one of three times
GapEventTypes == {"QUERY_MODIFIED", "SQL_RUN"}
GapTimestamps == {NoTime, 0, 10, 21}

\* prompts matching one, several or none of the word lists of classify_intent
IntentPrompts ==
    {<<"what", "is", "the", "bug">>, <<"FIX", "the", "approach">>,
     <<"how", "to", "debug">>, <<"Check", "the", "method">>,
     <<"verify", "the", "solution">>, <<"solve", "it">>, <<"joins">>, <<>>}

(***************************************************************************)
(* Specifications.                                                         *)
(***************************************************************************)
\* a mixed session, analysed at either difficulty
Next ==
    \/ \E v \in MixedEvents, gap \in MixedGaps : AddEvent(v[1], gap, v[2], MaxEvents)
    \/ \E p \in MixedPrompts : AddInteraction(p, MaxInteractions)
    \/ \E d \in Difficulties : Construct(d)
    \/ CallCalculateAllMetrics

Spec == Init /\ [][Next]_vars

\* iteration events and SQL runs at varying distances
NextIteration ==
    \/ \E t \in IterationEventTypes, gap \in IterationGaps :
            AddEvent(t, gap, <<>>, MaxIterEvents)
    \/ Construct(Medium)
    \/ CallCalculateAllMetrics

SpecIteration == Init /\ [][NextIteration]_vars

\* errors and resolutions at varying distances
NextDebug ==
    \/ \E t \in DebugEventTypes, gap \in DebugGaps :
            AddEvent(t, gap, <<>>, MaxDebugEvents)
    \/ Construct(Medium)
    \/ CallCalculateAllMetrics

SpecDebug == Init /\ [][NextDebug]_vars

\* explore events, SQL runs and other events, one second apart
NextExplore ==
    \/ \E t \in ExploreEventTypes : AddEvent(t, 1, <<>>, MaxExploreEvents)
    \/ Construct(Medium)
    \/ CallDetectThinkingSequences

SpecExplore == Init /\ [][NextExplore]_vars

\* errors, AI prompts and other events, one second apart
NextLoop ==
    \/ \E t \in LoopEventTypes : AddEvent(t, 1, <<>>, MaxLoopEvents)
    \/ Construct(Medium)
    \/ CallDetectThinkingSequences

SpecLoop == Init /\ [][NextLoop]_vars

\* AI response usage events
NextCollab ==
    \/ \E t \in CollabEventTypes : AddEvent(t, 1, <<>>, MaxCollabEvents)
    \/ Construct(Medium)
    \/ CallCalculateAllMetrics

SpecCollab == Init /\ [][NextCollab]_vars

\* AI interactions of every intent
NextReliance ==
    \/ \E p \in ReliancePrompts : AddInteraction(p, MaxRelianceInteractions)
    \/ Construct(Medium)
    \/ CallCalculateAllMetrics

SpecReliance == Init /\ [][NextReliance]_vars

\* AI interactions whose prompts match several keyword lists
NextClassify ==
    \/ \E p \in ClassifyPrompts : AddInteraction(p, MaxClassifyInteractions)
    \/ Construct(Medium)
    \/ CallCalculateAllMetrics

SpecClassify == Init /\ [][NextClassify]_vars

\* prompts as the prompt handler stores them, then the analysis
NextIntent ==
    \/ \E p \in IntentPrompts : AddInteraction(p, MaxIntentInteractions)
    \/ Construct(Medium)

SpecIntent == Init /\ [][NextIntent]_vars

\* event lists in the caller's order, then the analysis
NextOrder ==
    \/ \E v \in OrderEvents, t \in OrderTimestamps :
            SupplyEvent(v[1], t, v[2], MaxOrderEvents)
    \/ Construct(Medium)
    \/ CallCalculateAllMetrics

SpecOrder == Init /\ [][NextOrder]_vars

\* event lists in which timestamps are missing, then either entry point
NextMalformed ==
    \/ \E t \in MalformedEventTypes, ts \in MalformedTimestamps :
            SupplyEvent(t, ts, <<>>, MaxMalformedEvents)
    \/ Construct(Medium)
    \/ CallCalculateAllMetrics
    \/ CallDetectThinkingSequences

SpecMalformed == Init /\ [][NextMalformed]_vars

\* a calculator, a query text, then its structural analysis
NextSql ==
    \/ Construct(Medium)
    \/ \E fragment \in SqlFragments : TypeFragment(fragment, MaxQueryFragments)
    \/ CallAnalyzeSqlStructure

SpecSql == Init /\ [][NextSql]_vars

\* SQL runs with queries of every category, then the analysis
NextQueries ==
    \/ \E q \in RunQueries : AddEvent("SQL_RUN", 15, q, MaxQueryEvents)
    \/ Construct(Medium)
    \/ CallCalculateAllMetrics

SpecQueries == Init /\ [][NextQueries]_vars

\* a calculator, then the confidence of one sample size
NextConfidence ==
    \/ Construct(Medium)
    \/ \E n \in 0..MaxSampleSize, o \in OptimalSizes : CallConfidenceFromSampleSize(n, o)

SpecConfidence == Init /\ [][NextConfidence]_vars

\* explore events around SQL runs, analysed at any of the three difficulties
NextScore ==
    \/ \E t \in ScoreEventTypes, gap \in ScoreGaps : AddEvent(t, gap, <<>>, MaxScoreEvents)
    \/ \E d \in Difficulties \cup {Hard} : Construct(d)
    \/ CallCalculateAllMetrics

SpecScore == Init /\ [][NextScore]_vars

\* iteration events 0, 10, 11 or 21 seconds apart, some without a timestamp
NextGap ==
    \/ \E t \in GapEventTypes, ts \in GapTimestamps :
            SupplyEvent(t, ts, <<>>, MaxGapEvents)
    \/ Construct(Medium)
    \/ CallCalculateAllMetrics

SpecGap == Init /\ [][NextGap]_vars

(***************************************************************************)
(* Properties.                                                             *)
(***************************************************************************)
HasReport == report # NoReport
HasSequences == sequences # NoSequences

\* a zero-activity result: the given value and tag, confidence 0.0, no samples
IsSentinel(metric, value, tag) ==
    /\ REq(metric.value, value)
    /\ REq(metric.confidence, RZero)
    /\ metric.sample_size = 0
    /\ metric.interpretation = tag

TypeCount(type) == calc.event_counts[type]

\* C1: for an empty event list and an empty interaction list every
\* calculator returns its zero-activity result with confidence 0.0, and
\* overall_confidence is 0.0.
C1_EmptyInputAllSentinels ==
    (HasReport /\ calc.events = <<>> /\ calc.ai_interactions = <<>>) =>
        /\ IsSentinel(report.exploration, RZero, "no_sql_activity")
        /\ REq(report.iteration.value, RZero)
        /\ REq(report.iteration.confidence, RZero)
        /\ report.iteration.sample_size = 0
        /\ IsSentinel(report.debugging, ROne, "no_errors_encountered")
        /\ IsSentinel(report.ai_reliance, RZero, "no_ai_usage")
        /\ IsSentinel(report.ai_collaboration, RZero, "no_ai_code_usage")
        /\ IsSentinel(report.sql_complexity, RZero, "no_queries")
        /\ REq(report.overall_confidence, RZero)

ReportedMetrics ==
    {report.exploration, report.iteration, report.debugging, report.ai_reliance,
     report.ai_collaboration, report.sql_complexity, report.independence}

\* C2: a calculator without observations returns confidence 0.0, sample
\* size 0 and its own tag (no SQL_RUN: exploration 0.0 / no_sql_activity; no
\* ERROR_OCCURRED: debugging 1.0 / no_errors_encountered; no interaction:
\* ai_reliance 0.0 / no_ai_usage; no query: sql_complexity 0.0 / no_queries),
\* so every reported metric of sample size 0 has confidence 0.0.
C2_NoObservationsZeroConfidence ==
    HasReport =>
        /\ TypeCount("SQL_RUN") = 0 =>
                IsSentinel(report.exploration, RZero, "no_sql_activity")
        /\ TypeCount("ERROR_OCCURRED") = 0 =>
                IsSentinel(report.debugging, ROne, "no_errors_encountered")
        /\ calc.ai_interactions = <<>> =>
                IsSentinel(report.ai_reliance, RZero, "no_ai_usage")
        /\ ExtractQueries(calc) = <<>> =>
                IsSentinel(report.sql_complexity, RZero, "no_queries")
        /\ \A m \in ReportedMetrics : m.sample_size = 0 => REq(m.confidence, RZero)

\* C3: the returned value never exceeds the calculator's cap (exploration
\* and iteration 2.0, debugging and ai_reliance 1.0, sql_complexity 4.0) and
\* no sample size is negative.
C3_ValuesWithinCaps ==
    HasReport =>
        /\ RLe(report.exploration.value, Rat(2, 1))
        /\ RLe(report.iteration.value, Rat(2, 1))
        /\ RLe(report.debugging.value, ROne)
        /\ RLe(report.ai_reliance.value, ROne)
        /\ RLe(report.sql_complexity.value, Rat(4, 1))
        /\ \A m \in ReportedMetrics : m.sample_size >= 0

\* the uncapped exploration score of the analysed stream exceeds 2.0 and the
\* mean query complexity exceeds 20
C3_Witness ==
    /\ HasReport
    /\ TypeCount("SQL_RUN") > 0
    /\ RLt(Rat(2 * TypeCount("SQL_RUN") * calc.problem_difficulty[1],
               calc.problem_difficulty[2]),
           WeightedExplorations(calc))
    /\ REq(report.exploration.value, Rat(2, 1))
    /\ REq(report.sql_complexity.value, Rat(4, 1))

\* C4: with at least one AI_RESPONSE_USED event, ai_collaboration.value is
\* max(0, modified/used - 0.5 * copied/used) and lies in [0, 1.0].
C4_CollaborationValueInUnitRange ==
    (HasReport /\ TypeCount("AI_RESPONSE_USED") >= 1) =>
        /\ REq(report.ai_collaboration.value,
               RMax(RZero,
                    RSub(Rat(TypeCount("AI_CODE_MODIFIED"), TypeCount("AI_RESPONSE_USED")),
                         Rat(TypeCount("AI_CODE_COPIED"), 2 * TypeCount("AI_RESPONSE_USED")))))
        /\ RLe(RZero, report.ai_collaboration.value)
        /\ RLe(report.ai_collaboration.value, ROne)

\* the filter C5 describes: an event is compared with the last KEPT event; a
\* dropped event does not move the reference time.  The comparison itself is
\* the code's (kept when more than 10 seconds apart), so that only the
\* reference time is in question here.
RECURSIVE KeptReferenceCount(_, _)
KeptReferenceCount(evs, last_kept) ==
    IF evs = <<>> THEN 0
    ELSE IF last_kept # NoTime /\ Head(evs).timestamp - last_kept <= MeaningfulGapSeconds
         THEN KeptReferenceCount(Tail(evs), last_kept)
    ELSE 1 + KeptReferenceCount(Tail(evs), Head(evs).timestamp)

AnalysedIterationEvents == SelectSeq(calc.events, LAMBDA e : e.type \in IterationTypes)

\* C5: the first iteration event is counted and a later one is dropped only
\* when it comes less than 10 seconds after the most recently kept one (a
\* dropped event does not move the reference time), so the number of
\* meaningful iterations is that of the kept-reference filter.
C5_FilterComparesWithLastKept ==
    HasReport =>
        report.iteration.sample_size = KeptReferenceCount(AnalysedIterationEvents, NoTime)

AnalysedErrors == {i \in DOMAIN calc.events : calc.events[i].type = "ERROR_OCCURRED"}
AnalysedResolutions == {i \in DOMAIN calc.events : calc.events[i].type = "ERROR_RESOLVED"}

\* the errors for which some resolution lies in (error time, error time + 5 min)
MatchedErrors ==
    {i \in AnalysedErrors :
        \E r \in AnalysedResolutions :
            /\ calc.events[i].timestamp < calc.events[r].timestamp
            /\ calc.events[r].timestamp < calc.events[i].timestamp + 5 * 60}

\* C6: debugging.value is the number of errors with a resolution strictly
\* inside (error time, error time + 5 minutes), over the number of errors.
C6_DebugValueIsMatchedFraction ==
    (HasReport /\ AnalysedErrors # {}) =>
        /\ REq(report.debugging.value,
               Rat(Cardinality(MatchedErrors), Cardinality(AnalysedErrors)))
        /\ report.debugging.sample_size = Cardinality(AnalysedErrors)

\* one resolution matches two errors, and an error whose only later
\* resolutions lie 5 minutes or more after it stays unmatched
C6_Witness ==
    /\ HasReport
    /\ \E r \in AnalysedResolutions :
        \E i, j \in MatchedErrors :
            /\ i # j
            /\ \A k \in {i, j} :
                /\ calc.events[k].timestamp < calc.events[r].timestamp
                /\ calc.events[r].timestamp < calc.events[k].timestamp + 5 * 60
    /\ \E i \in AnalysedErrors \ MatchedErrors :
        \E r \in AnalysedResolutions :
            calc.events[r].timestamp >= calc.events[i].timestamp + 5 * 60

AnalysedLength == Len(calc.events)

\* the explore events with a SQL_RUN among the at most 5 events after them
MatchedExplores ==
    {i \in 1..AnalysedLength :
        /\ calc.events[i].type \in {"SCHEMA_EXPLORED", "TABLE_PREVIEWED"}
        /\ \E j \in (i + 1)..(i + 5) :
                j <= AnalysedLength /\ calc.events[j].type = "SQL_RUN"}

\* the first SQL_RUN after event i
NextSqlRun(i) ==
    CHOOSE j \in (i + 1)..AnalysedLength :
        /\ calc.events[j].type = "SQL_RUN"
        /\ \A k \in (i + 1)..(j - 1) : calc.events[k].type # "SQL_RUN"

SetMin(S) == CHOOSE x \in S : \A y \in S : x <= y
SetMax(S) == CHOOSE x \in S : \A y \in S : y <= x

PatternsOfType(type) ==
    SelectSeq(sequences.patterns, LAMBDA p : p.pattern_type = type)

\* C7: exactly one data_driven_approach record (quality 1.0) when some
\* explore event has a SQL_RUN among the at most 5 events after it, none
\* otherwise; its range runs from the first matched explore event's timestamp
\* to the timestamp of the SQL_RUN matched with the last one, start <= end.
C7_OneDataDrivenRecord ==
    HasSequences =>
        LET found == PatternsOfType("data_driven_approach")
        IN  IF MatchedExplores = {} THEN found = <<>>
            ELSE /\ Len(found) = 1
                 /\ REq(found[1].quality_score, ROne)
                 /\ found[1].timestamp_range =
                        <<calc.events[SetMin(MatchedExplores)].timestamp,
                          calc.events[NextSqlRun(SetMax(MatchedExplores))].timestamp>>
                 /\ found[1].timestamp_range[1] <= found[1].timestamp_range[2]

\* two explore events are matched, and a third explore event has its next
\* SQL_RUN 6 or more positions after it
C7_Witness ==
    /\ HasSequences
    /\ Len(PatternsOfType("data_driven_approach")) = 1
    /\ \E i, j \in MatchedExplores : i # j
    /\ \E i \in 1..AnalysedLength :
        /\ calc.events[i].type = "SCHEMA_EXPLORED"
        /\ i \notin MatchedExplores
        /\ \E j \in (i + 6)..AnalysedLength : calc.events[j].type = "SQL_RUN"

\* the indices where an error, an AI prompt and an error follow one another
LoopIndices ==
    {i \in 1..(AnalysedLength - 2) :
        /\ calc.events[i].type = "ERROR_OCCURRED"
        /\ calc.events[i + 1].type = "AI_PROMPT"
        /\ calc.events[i + 2].type = "ERROR_OCCURRED"}

\* C8: one ai_dependency_loop record (quality 0.2) for every index i with
\* events i, i+1, i+2 = ERROR_OCCURRED, AI_PROMPT, ERROR_OCCURRED, spanning
\* i to i+2, and no other; overlapping occurrences are each reported.
C8_OneLoopRecordPerOccurrence ==
    HasSequences =>
        LET found == PatternsOfType("ai_dependency_loop")
        IN  /\ Len(found) = Cardinality(LoopIndices)
            /\ \A k \in DOMAIN found : REq(found[k].quality_score, Rat(2, 10))
            /\ {found[k].timestamp_range : k \in DOMAIN found} =
                    {<<calc.events[i].timestamp, calc.events[i + 2].timestamp>> :
                        i \in LoopIndices}

\* two occurrences share their middle error (E, AI, E, AI, E)
C8_Witness ==
    /\ HasSequences
    /\ \E i \in LoopIndices : i + 2 \in LoopIndices
    /\ Len(PatternsOfType("ai_dependency_loop")) = 2

\* C9: independence.value = 1 - ai_reliance.value, with ai_reliance's
\* confidence and sample size; independent below 0.4, collaborative from 0.4
\* to below 0.7, dependent from 0.7 on (thresholds on ai_reliance.value).
C9_IndependenceMirrorsReliance ==
    HasReport =>
        /\ REq(RAdd(report.independence.value, report.ai_reliance.value), ROne)
        /\ report.independence.confidence = report.ai_reliance.confidence
        /\ report.independence.sample_size = report.ai_reliance.sample_size
        /\ RLt(report.ai_reliance.value, Rat(4, 10)) =>
                report.independence.interpretation = "independent"
        /\ (RLe(Rat(4, 10), report.ai_reliance.value)
            /\ RLt(report.ai_reliance.value, Rat(7, 10))) =>
                report.independence.interpretation = "collaborative"
        /\ RLe(Rat(7, 10), report.ai_reliance.value) =>
                report.independence.interpretation = "dependent"

\* a reliance of exactly 0.7 (only debugging prompts) reported as dependent
C9_Witness ==
    /\ HasReport
    /\ calc.ai_interactions # <<>>
    /\ REq(report.ai_reliance.value, Rat(7, 10))
    /\ report.independence.interpretation = "dependent"
    /\ REq(report.independence.value, Rat(3, 10))

\* the analysed stream without its AI_RESPONSE_USED, AI_CODE_MODIFIED and
\* AI_CODE_COPIED events, handed to a calculator of its own
WithoutCollaborationEvents ==
    NewCalculator(SelectSeq(calc.events, LAMBDA e : e.type \notin CollabEventTypes),
                  calc.ai_interactions, calc.problem_difficulty)

\* C10: overall_confidence is the mean of the confidences of exploration,
\* iteration, debugging, ai_reliance and sql_complexity, and it is the same
\* with the AI_RESPONSE_USED, AI_CODE_MODIFIED and AI_CODE_COPIED events
\* taken out of the stream.
C10_OverallConfidenceOfFive ==
    HasReport =>
        /\ REq(report.overall_confidence,
               RDivInt(RAdd(RAdd(RAdd(RAdd(report.exploration.confidence,
                                           report.iteration.confidence),
                                      report.debugging.confidence),
                                 report.ai_reliance.confidence),
                            report.sql_complexity.confidence),
                       5))
        /\ \A r \in CalculateAllMetrics(WithoutCollaborationEvents) :
                REq(r.overall_confidence, report.overall_confidence)

\* a report over a stream with AI response usage: ai_collaboration has a
\* positive confidence and so have all five averaged calculators
C10_Witness ==
    /\ HasReport
    /\ TypeCount("AI_RESPONSE_USED") > 0
    /\ RLt(RZero, report.ai_collaboration.confidence)
    /\ RLt(RZero, report.exploration.confidence)
    /\ RLt(RZero, report.ai_reliance.confidence)
    /\ RLt(RZero, report.overall_confidence)

\* the keyword lists in the order the classifier tests them
PriorityOrder ==
    <<[label |-> "hint", keywords |-> HintKeywords],
      [label |-> "debug", keywords |-> DebugKeywords],
      [label |-> "explanation", keywords |-> ExplanationKeywords],
      [label |-> "code_gen", keywords |-> CodeGenKeywords],
      [label |-> "validation", keywords |-> ValidationKeywords]>>

\* positions of the lists a keyword of which occurs in the prompt
MatchedCategories(prompt) ==
    {k \in DOMAIN PriorityOrder : AnyKeyword(PriorityOrder[k].keywords, prompt)}

\* the label of the highest-priority matching list, conceptual without a match
ExpectedLabel(prompt) ==
    IF MatchedCategories(prompt) = {} THEN "conceptual"
    ELSE PriorityOrder[SetMin(MatchedCategories(prompt))].label

RECURSIVE SumOver(_, _)
SumOver(f, S) ==
    IF S = {} THEN 0
    ELSE LET x == CHOOSE y \in S : TRUE IN f[x] + SumOver(f, S \ {x})

\* C11: the intent breakdown has exactly the six labels, its counts sum to
\* the number of interactions, and every interaction is counted under the
\* highest-priority list it matches (hint > debug > explanation > code_gen >
\* validation), under conceptual when it matches none.
C11_ClassifierTotalFirstMatch ==
    HasReport =>
        /\ DOMAIN report.ai_intent_breakdown = IntentLabels
        /\ Cardinality(IntentLabels) = 6
        /\ SumOver(report.ai_intent_breakdown, IntentLabels) = Len(calc.ai_interactions)
        /\ \A label \in IntentLabels :
                report.ai_intent_breakdown[label] =
                    CountIf(calc.ai_interactions,
                            LAMBDA i : ExpectedLabel(i.user_prompt) = label)

\* a report over a prompt matching two lists, a prompt matching none and a
\* missing prompt
C11_Witness ==
    /\ HasReport
    /\ \E k \in DOMAIN calc.ai_interactions :
            Cardinality(MatchedCategories(calc.ai_interactions[k].user_prompt)) >= 2
    /\ \E k \in DOMAIN calc.ai_interactions : calc.ai_interactions[k].user_prompt = <<>>
    /\ report.ai_intent_breakdown["conceptual"] >= 1
    /\ report.ai_intent_breakdown["hint"] + report.ai_intent_breakdown["debug"]
        + report.ai_intent_breakdown["explanation"]
        + report.ai_intent_breakdown["code_gen"] >= 1

\* the word lists in the order classify_intent tests them
HelperPriorityOrder ==
    <<[label |-> "CONCEPT_HELP", keywords |-> ConceptWords],
      [label |-> "DEBUG_HELP", keywords |-> DebugWords],
      [label |-> "APPROACH_HELP", keywords |-> ApproachWords],
      [label |-> "VALIDATION", keywords |-> ValidationWords],
      [label |-> "DIRECT_SOLUTION", keywords |-> SolutionWords]>>

HelperMatchedCategories(prompt) ==
    {k \in DOMAIN HelperPriorityOrder :
        AnyKeyword(HelperPriorityOrder[k].keywords, prompt)}

HelperExpectedLabel(prompt) ==
    IF HelperMatchedCategories(prompt) = {} THEN "EXPLANATION"
    ELSE HelperPriorityOrder[SetMin(HelperMatchedCategories(prompt))].label

\* C12: the label stored with a prompt is one of the six helper labels: that
\* of the first matching list in the order concept > debug > approach >
\* validation > direct solution, EXPLANATION when no list matches.
C12_IntentLabelFirstMatch ==
    \A k \in DOMAIN ai_interactions :
        /\ ai_interactions[k].intent_label \in HelperLabels
        /\ Cardinality(HelperLabels) = 6
        /\ ai_interactions[k].intent_label =
                HelperExpectedLabel(ai_interactions[k].user_prompt)

\* stored prompts of which one matches two lists and was labelled DEBUG_HELP,
\* one matches no list and one is labelled APPROACH_HELP
C12_Witness ==
    /\ \E k \in DOMAIN ai_interactions :
            /\ Cardinality(HelperMatchedCategories(ai_interactions[k].user_prompt)) >= 2
            /\ ai_interactions[k].intent_label = "DEBUG_HELP"
    /\ \E k \in DOMAIN ai_interactions :
            /\ HelperMatchedCategories(ai_interactions[k].user_prompt) = {}
            /\ ai_interactions[k].intent_label = "EXPLANATION"
    /\ \E k \in DOMAIN ai_interactions :
            ai_interactions[k].intent_label = "APPROACH_HELP"

DistinctTimestamps(evs) ==
    \A i, j \in DOMAIN evs : i # j => evs[i].timestamp # evs[j].timestamp

RemoveAt(s, i) == SubSeq(s, 1, i - 1) \o SubSeq(s, i + 1, Len(s))

EarliestIndex(evs) ==
    CHOOSE i \in DOMAIN evs : \A j \in DOMAIN evs : evs[i].timestamp <= evs[j].timestamp

\* the events by repeatedly taking the earliest one
RECURSIVE AscendingOrder(_)
AscendingOrder(evs) ==
    IF evs = <<>> THEN <<>>
    ELSE <<evs[EarliestIndex(evs)]>> \o AscendingOrder(RemoveAt(evs, EarliestIndex(evs)))

Reversed(s) == [i \in DOMAIN s |-> s[Len(s) + 1 - i]]

IsSuppliedOutOfOrder == events # AscendingOrder(events)

\* C13: for events with pairwise distinct timestamps the report is the one
\* the same events give when supplied in ascending and in descending
\* timestamp order, so it does not depend on the caller's order.
C13_ReportIndependentOfOrder ==
    (HasReport /\ DistinctTimestamps(events)) =>
        /\ CalculateAllMetrics(calc) =
                CalculateAllMetrics(NewCalculator(AscendingOrder(events),
                                                  ai_interactions, calc.problem_difficulty))
        /\ CalculateAllMetrics(calc) =
                CalculateAllMetrics(NewCalculator(Reversed(AscendingOrder(events)),
                                                  ai_interactions, calc.problem_difficulty))
        /\ report \in CalculateAllMetrics(calc)

\* a report over three events of distinct times supplied neither in
\* ascending nor in descending order, with an explore-then-SQL sequence
C13_Witness ==
    /\ HasReport
    /\ Len(events) = 3
    /\ DistinctTimestamps(events)
    /\ IsSuppliedOutOfOrder
    /\ events # Reversed(AscendingOrder(events))
    /\ report.thinking_sequences # <<>>
    /\ RLt(RZero, report.exploration.value)

WellFormedMetric(m) ==
    /\ DOMAIN m = {"value", "confidence", "sample_size", "interpretation"}
    /\ m.sample_size >= 0

\* C14: on event lists in which events lack a timestamp or metadata, neither
\* calculate_all_metrics nor detect_thinking_sequences raises, and every
\* calculator's result is a well-formed ConfidenceMetric.
C14_NoRaiseOnMalformedEvents ==
    /\ report # RaisedKeyError
    /\ sequences # RaisedKeyError
    /\ (HasReport /\ report # RaisedKeyError) =>
            \A m \in ReportedMetrics : WellFormedMetric(m)

HasAnalysis == helper_result.kind = "analysis"

\* join 2 + nesting 3 + cte 4 + aggregation 1.5 + window 5, from the counts
\* the analysis reports
ScoreOfCounts(a) ==
    Rat(4 * a.join_depth + 6 * a.nesting_level + 8 * a.cte_count
        + 3 * a.aggregations + 10 * a.window_functions, 2)

CategoryOfScore(score) ==
    IF RLt(score, Rat(5, 1)) THEN "basic"
    ELSE IF RLt(score, Rat(10, 1)) THEN "intermediate"
    ELSE IF RLt(score, Rat(20, 1)) THEN "advanced"
    ELSE "expert"

\* C15: complexity_score is 2*join_depth + 3*nesting_level + 4*cte_count +
\* 1.5*aggregations + 5*window_functions and the category depends on the
\* score alone (basic < 5 <= intermediate < 10 <= advanced < 20 <= expert);
\* 'SELECT 1' scores 0, two JOINs score 4, and one CTE, one window, one
\* aggregate and one nesting level score 13.5.
C15_ScoreAndCategory ==
    HasAnalysis =>
        LET a == helper_result.result
        IN  /\ REq(a.complexity_score, ScoreOfCounts(a))
            /\ a.category = CategoryOfScore(a.complexity_score)
            /\ helper_result.query = SimpleQuery =>
                    REq(a.complexity_score, RZero) /\ a.category = "basic"
            /\ helper_result.query = <<"join", "u", "join", "u">> =>
                    REq(a.complexity_score, Rat(4, 1))
            /\ (a.cte_count = 1 /\ a.window_functions = 1 /\ a.aggregations = 1
                    /\ a.nesting_level = 1 /\ a.join_depth = 0) =>
                    REq(a.complexity_score, Rat(27, 2)) /\ a.category = "advanced"

\* the analysis of WITH t AS SUM ( x ) OVER ( ): 13.5, advanced
C15_Witness ==
    /\ HasAnalysis
    /\ helper_result.query = <<"WITH", "t", "AS", "SUM", "(", "x", ")", "OVER", "(", ")">>
    /\ helper_result.result.cte_count = 1
    /\ helper_result.result.window_functions = 1
    /\ helper_result.result.aggregations = 1
    /\ helper_result.result.nesting_level = 1
    /\ REq(helper_result.result.complexity_score, Rat(27, 2))
    /\ helper_result.result.category = "advanced"

\* the running counter after the first k tokens: "(" seen minus ")" seen
DepthAfter(q, k) ==
    Cardinality({i \in 1..k : q[i] = "("}) - Cardinality({i \in 1..k : q[i] = ")"})

UnmatchedClosing(q) == \E k \in 0..Len(q) : DepthAfter(q, k) < 0

AnalysedQueries == ExtractQueries(calc)

\* twice the sum of the queries' scores (every score is a multiple of 0.5)
RECURSIVE DoubledScoreSum(_)
DoubledScoreSum(queries) ==
    IF queries = <<>> THEN 0
    ELSE ScoreOfCounts(AnalyzeSqlStructure(Head(queries)))[1]
         + DoubledScoreSum(Tail(queries))

CategoryCount(category) ==
    CountIf(AnalysedQueries,
            LAMBDA q : CategoryOfScore(ScoreOfCounts(AnalyzeSqlStructure(q))) = category)

\* C17: for a non-empty query list sql_complexity.value is
\* min(4.0, mean(complexity_score) / 5), its sample_size is the number of
\* queries and its interpretation is a category that no other category
\* outnumbers among the queries.
C17_SqlComplexityOfQueryList ==
    (HasReport /\ AnalysedQueries # <<>>) =>
        LET n == Len(AnalysedQueries)
            total2 == DoubledScoreSum(AnalysedQueries)
        IN  /\ REq(report.sql_complexity.value,
                   IF total2 >= 40 * n THEN Rat(4, 1) ELSE Rat(total2, 10 * n))
            /\ report.sql_complexity.sample_size = n
            /\ CategoryCount(report.sql_complexity.interpretation) >= 1
            /\ \A c \in {"basic", "intermediate", "advanced", "expert"} :
                    CategoryCount(c) <= CategoryCount(report.sql_complexity.interpretation)

\* a report over three queries, two of one category and one of a higher
\* one: the interpretation is the category of the two, the value is below 4
C17_Witness ==
    /\ HasReport
    /\ Len(AnalysedQueries) = 3
    /\ CategoryCount("intermediate") = 2
    /\ CategoryCount("expert") = 1
    /\ report.sql_complexity.interpretation = "intermediate"
    /\ REq(report.sql_complexity.value, Rat(61, 30))
    /\ report.sql_complexity.sample_size = 3

HasConfidence == helper_result.kind = "confidence"

\* C18: the confidence is 0.0 for no samples, lies in [0, 1] and is not
\* smaller than the confidence of one sample fewer, from the step 0 -> 1 on,
\* for the optimal sizes 8, 10, 15 and 20.
C18_ConfidenceMonotoneBounded ==
    HasConfidence =>
        /\ RLe(RZero, helper_result.value)
        /\ RLe(helper_result.value, ROne)
        /\ helper_result.sample_size = 0 => REq(helper_result.value, RZero)
        /\ helper_result.sample_size >= 1 =>
                RLe(ConfidenceFromSampleSize(helper_result.sample_size - 1,
                                             helper_result.optimal_size),
                    helper_result.value)

\* the confidence of one sample at optimal size 8: above that of no samples,
\* below one tenth
C18_Witness ==
    /\ HasConfidence
    /\ helper_result.sample_size = 1
    /\ helper_result.optimal_size = 8
    /\ RLt(ConfidenceFromSampleSize(0, 8), helper_result.value)
    /\ RLt(helper_result.value, Rat(1, 10))

ExploreIndices == {k \in DOMAIN calc.events : calc.events[k].type \in ExplorationTypes}

FirstSqlIndex == SetMin({k \in DOMAIN calc.events : calc.events[k].type = "SQL_RUN"})

\* the explore events logged strictly before the time of the first SQL_RUN
EarlyExploreIndices ==
    {k \in ExploreIndices : calc.events[k].timestamp < calc.events[FirstSqlIndex].timestamp}

\* (1.5 * early + 1.0 * others) / SQL runs / problem_difficulty
UncappedExplorationScore ==
    LET early == Cardinality(EarlyExploreIndices)
        others == Cardinality(ExploreIndices) - early
    IN  Rat((3 * early + 2 * others) * calc.problem_difficulty[2],
            2 * TypeCount("SQL_RUN") * calc.problem_difficulty[1])

\* C19: with at least one SQL_RUN the exploration score is (1.5 * explore
\* events strictly before the first SQL_RUN + the other explore events) /
\* SQL runs / problem_difficulty; the value is the score capped at 2.0, the
\* sample size is SQL runs + explore events, and the interpretation is
\* data_first_approach above 0.4, some_exploration above 0.15 and
\* query_first_approach otherwise, decided on the uncapped score.
C19_ExplorationScore ==
    (HasReport /\ TypeCount("SQL_RUN") > 0) =>
        /\ REq(report.exploration.value,
               IF RLt(Rat(2, 1), UncappedExplorationScore) THEN Rat(2, 1)
               ELSE UncappedExplorationScore)
        /\ report.exploration.sample_size =
                TypeCount("SQL_RUN") + Cardinality(ExploreIndices)
        /\ report.exploration.interpretation =
                IF RLt(Rat(4, 10), UncappedExplorationScore) THEN "data_first_approach"
                ELSE IF RLt(Rat(15, 100), UncappedExplorationScore) THEN "some_exploration"
                ELSE "query_first_approach"

\* a hard problem with one explore event before the first SQL_RUN, one at
\* its very time and one after it: (1.5 + 2) / 1 / 1.5, capped at 2.0
C19_Witness ==
    /\ HasReport
    /\ TypeCount("SQL_RUN") = 1
    /\ calc.problem_difficulty = Hard
    /\ Cardinality(EarlyExploreIndices) = 1
    /\ \E k \in ExploreIndices :
            calc.events[k].timestamp = calc.events[FirstSqlIndex].timestamp
    /\ \E k \in ExploreIndices :
            calc.events[k].timestamp > calc.events[FirstSqlIndex].timestamp
    /\ REq(UncappedExplorationScore, Rat(7, 3))
    /\ REq(report.exploration.value, Rat(2, 1))
    /\ report.exploration.sample_size = 4

\* ten times the weighted sum of the reported intent counts
TenfoldWeightedIntents ==
    10 * report.ai_intent_breakdown["code_gen"] + 7 * report.ai_intent_breakdown["debug"]
    + 5 * report.ai_intent_breakdown["conceptual"]
    + 4 * report.ai_intent_breakdown["explanation"]
    + 3 * report.ai_intent_breakdown["hint"] + 2 * report.ai_intent_breakdown["validation"]

CountedIterationIndices ==
    LET its == AnalysedIterationEvents
    IN  {k \in DOMAIN its :
            \/ k = 1
            \/ its[k].timestamp = NoTime
            \/ its[k - 1].timestamp = NoTime
            \/ its[k].timestamp - its[k - 1].timestamp > 10}

ExploresFollowedBySql ==
    {k \in ExploreIndices :
        \E j \in (k + 1)..(k + 5) :
            j <= Len(calc.events) /\ calc.events[j].type = "SQL_RUN"}

\* C22: every event that calculate_exploration_score counts as exploration
\* (SCHEMA_EXPLORED, TABLE_PREVIEWED, DATA_QUALITY_CHECKED) and that has a
\* SQL_RUN among the next 5 events produces a data_driven_approach pattern.
C22_DetectorAgreesWithCalculator ==
    (HasReport /\ ExploresFollowedBySql # {}) =>
        \E i \in DOMAIN report.thinking_sequences :
            report.thinking_sequences[i].type = "data_driven_approach"

(***************************************************************************)
(* The conversation history: process_prompt and clear_history.             *)
(***************************************************************************)
History == ai_helper.conversation_history

\* the k-th question of a conversation of which k - 1 exchanges are remembered
NextQuestion(session_id) == Len(HistoryOf(History, session_id)) \div 2 + 1

HistoryModelLists == {<<"ollama">>, <<"gemini">>}
Modes == {"coding", "interview"}

NextHistory ==
    \/ \E models \in HistoryModelLists : InitAiEngine(models)
    \/ \E session_id \in SessionIds \cup {NoSessionId}, mode \in Modes :
            ProcessPromptBegin(1, NextQuestion(session_id), session_id, mode)
    \/ Invoke(1, "ok")
    \/ ProcessPromptReturn(1)
    \/ \E session_id \in SessionIds : ClearHistory(session_id)

SpecHistory == Init /\ [][NextHistory]_vars

\* a history is a list of at most 20 messages made of (user, assistant) pairs,
\* each answer next to the prompt it answers
WellPaired(h) ==
    /\ Len(h) <= 20
    /\ Len(h) % 2 = 0
    /\ \A i \in 1..Len(h) :
            h[i].role = (IF i % 2 = 1 THEN "user" ELSE "assistant")
    /\ \A k \in 1..(Len(h) \div 2) :
            /\ h[2 * k - 1].content.kind = "prompt"
            /\ h[2 * k].content.kind = "response"
                    => h[2 * k].content.to = h[2 * k - 1].content.text

\* the last n elements of a list
LastN(seq, n) == IF Len(seq) > n THEN SubSeq(seq, Len(seq) - n + 1, Len(seq)) ELSE seq

\* session t has the same history before and after the step
SameHistory(t) ==
    /\ (t \in DOMAIN History') = (t \in DOMAIN History)
    /\ HistoryOf(History', t) = HistoryOf(History, t)

\* the step in which process_prompt call c updates the history and returns
ProcessPromptStep(c) ==
    /\ c \in DOMAIN calls
    /\ calls[c].handler = "process_prompt"
    /\ calls[c].pc = "generated"
    /\ c \notin DOMAIN calls'

\* the step in which clear_history returns
ClearHistoryStep ==
    /\ calls' = calls
    /\ reply'.handler = "clear_history"

HistoryStep ==
    /\ \A c \in DOMAIN calls : ProcessPromptStep(c) =>
            LET s == calls[c].session_id
                exchange == <<Message("user", Prompt(calls[c].user_prompt)),
                              Message("assistant", calls[c].response)>>
            IN  /\ s = NoSessionId => History' = History
                /\ s # NoSessionId =>
                        /\ s \in DOMAIN History'
                        /\ History'[s] = LastN(HistoryOf(History, s) \o exchange, 20)
                        /\ \A t \in SessionIds \ {s} : SameHistory(t)
    /\ ClearHistoryStep =>
            /\ reply'.session_id \notin DOMAIN History'
            /\ \A t \in SessionIds \ {reply'.session_id} : SameHistory(t)
    /\ (~ClearHistoryStep /\ \A c \in DOMAIN calls : ~ProcessPromptStep(c))
            => History' = History

\* C23: every session's history holds at most 20 messages in adjacent (user,
\* assistant) pairs; a process_prompt call leaves the session with the last 20
\* messages of its old history followed by the new exchange and leaves every
\* other session alone, a call without session_id stores nothing, and
\* clear_history removes that session's history and no other.
C23_HistoryKeepsRecentExchanges ==
    /\ [](\A s \in DOMAIN History : WellPaired(History[s]))
    /\ [][HistoryStep]_vars

\* an exchange has been cut off the front of one session's full history while
\* the other session has a history of its own
C23_Witness ==
    \E s \in DOMAIN History, t \in DOMAIN History :
        /\ s # t
        /\ Len(History[s]) = 20
        /\ History[s][1].content.text > 1
        /\ History[t] # <<>>
        /\ reply.handler = "process_prompt"
        /\ reply.session_id = s

(***************************************************************************)
(* MultiModelAI.generate called directly.                                  *)
(***************************************************************************)
RetryBudgets == 0..3
Outcomes == {"ok", "raise"}

NextGenerate ==
    \/ \E models \in ModelLists : InitAiEngine(models)
    \/ \E max_retries \in RetryBudgets : GenerateBegin(1, 1, max_retries)
    \/ \E outcome \in Outcomes : Invoke(1, outcome)
    \/ GenerateReturn(1)

SpecGenerate == Init /\ [][NextGenerate]_vars

\* a call of generate runs to its return: every invocation of a model comes
\* back, with a response or with an exception
SpecGenerateFair ==
    /\ SpecGenerate
    /\ WF_vars(\E outcome \in Outcomes : Invoke(1, outcome))
    /\ WF_vars(GenerateReturn(1))

\* the invocations generate makes if every one fails: model after model in
\* priority order, max_retries attempts on each
Schedule(models, max_retries) ==
    [i \in 1..(Len(models) * max_retries) |->
        [model |-> models[(i - 1) \div max_retries + 1],
         attempt |-> (i - 1) % max_retries]]

\* the invocations made follow the schedule, and none follows a success
FollowsSchedule(invoked, models, max_retries) ==
    /\ Len(invoked) <= Len(models) * max_retries
    /\ \A i \in 1..Len(invoked) :
            /\ invoked[i].model = Schedule(models, max_retries)[i].model
            /\ invoked[i].attempt = Schedule(models, max_retries)[i].attempt
            /\ i < Len(invoked) => invoked[i].outcome = "raise"

\* what generate returned is what its invocations call for
ReturnsFirstSuccess(r) ==
    /\ FollowsSchedule(r.invoked, r.models, r.max_retries)
    /\ IF r.models = <<>>
       THEN r.value = NoModelsAvailable /\ r.invoked = <<>>
       ELSE IF r.invoked # <<>> /\ Last(r.invoked).outcome = "ok"
       THEN r.value = ModelResponse(Last(r.invoked).model, 1)
       ELSE /\ r.value = TechnicalDifficulties
            /\ Len(r.invoked) = Len(r.models) * r.max_retries

\* C24: generate invokes the models in priority order, at most max_retries
\* times each, stops at the first success and returns its response, returns the
\* fixed fallback string when every attempt on every model failed and the
\* fixed "unavailable" string when no model is configured; it makes at most
\* len(models) * max_retries invocations and every call returns a string.
C24_GenerateFallsBackAndTerminates ==
    /\ [](\A c \in DOMAIN calls :
            FollowsSchedule(calls[c].invoked, Models, calls[c].max_retries))
    /\ [](reply.kind = "generated" => ReturnsFirstSuccess(reply))
    /\ ((1 \in DOMAIN calls) ~> (1 \notin DOMAIN calls /\ reply.kind = "generated"))

\* the first model failed twice and the second answered at its second attempt
C24_Witness ==
    /\ reply.kind = "generated"
    /\ reply.models = <<"ollama", "gemini">>
    /\ reply.max_retries = 2
    /\ Len(reply.invoked) = 4
    /\ reply.value = ModelResponse("gemini", 1)

(***************************************************************************)
(* process_prompt when the models fail.                                    *)
(***************************************************************************)
NextFailure ==
    \/ \E models \in ModelLists : InitAiEngine(models)
    \/ /\ Len(HistoryOf(History, "s1")) < 2 * MaxFailureExchanges
       /\ ProcessPromptBegin(1, NextQuestion("s1"), "s1", "coding")
    \/ \E outcome \in Outcomes : Invoke(1, outcome)
    \/ ProcessPromptReturn(1)

SpecFailure == Init /\ [][NextFailure]_vars

\* C25: every assistant message of a conversation history is the response of
\* a model: a process_prompt call for which no model responded stores nothing.
C25_FailedGenerationNotRecorded ==
    \A s \in DOMAIN History :
        \A i \in 1..Len(History[s]) :
            History[s][i].role = "assistant" => History[s][i].content.kind = "response"

(***************************************************************************)
(* Interaction lists that differ in their stored labels only.              *)
(***************************************************************************)
LabelPrompts == {<<"fix", "it">>, <<"write", "it">>, <<"joins">>}
\* "None": the intent_label column is nullable
StoredLabels == {"DEBUG_HELP", "DIRECT_SOLUTION", "None"}

NextLabels ==
    \/ \E p \in LabelPrompts, l \in StoredLabels :
            StoreInteraction(p, l, MaxLabelInteractions)
    \/ Construct(Medium)
    \/ CallCalculateAllMetrics

SpecLabels == Init /\ [][NextLabels]_vars

\* the calculator self with the stored labels replaced by labels
Relabelled(self, labels) ==
    [self EXCEPT !.ai_interactions =
        [i \in DOMAIN self.ai_interactions |->
            Interaction(self.ai_interactions[i].user_prompt, labels[i])]]

\* C26: whatever intent_label values are stored with the interactions, the
\* report's ai_reliance, independence and ai_intent_breakdown are those of
\* every list with the same prompts in the same order and other labels.
C26_ReportIgnoresStoredLabels ==
    (HasReport /\ report # RaisedKeyError) =>
        \A labels \in [DOMAIN calc.ai_interactions -> StoredLabels] :
            LET other == Relabelled(calc, labels)
            IN  /\ CalculateAiReliance(other) = report.ai_reliance
                /\ Independence(CalculateAiReliance(other)) = report.independence
                /\ ClassifyAiInteractions(other) = report.ai_intent_breakdown

\* a report over two interactions with the same prompt and different labels,
\* neither of them the label of an error prompt
C26_Witness ==
    /\ HasReport
    /\ report # RaisedKeyError
    /\ Len(calc.ai_interactions) = 2
    /\ calc.ai_interactions[1].user_prompt = <<"fix", "it">>
    /\ calc.ai_interactions[2].user_prompt = <<"fix", "it">>
    /\ calc.ai_interactions[1].intent_label = "DIRECT_SOLUTION"
    /\ calc.ai_interactions[2].intent_label = "None"
    /\ report.ai_intent_breakdown["debug"] = 2

(***************************************************************************)
(* Queries executed through /api/execute-sql and their analysis.           *)
(***************************************************************************)
ExecutedQueries == {SimpleQuery, <<"SELECT", "a", "FROM", "t", "JOIN", "u">>}

NextExecuted ==
    \/ \E code \in ExecutedQueries, success \in BOOLEAN :
            /\ Len(db.events) < MaxExecutions
            /\ ExecuteSqlRead(1, "s1", code, success)
    \/ ExecuteSqlWrite(1)
    \/ /\ Len(db.events) < MaxExecutions
       /\ LogEventRead(1, "s1", "SQL_RUN", [query |-> SimpleQuery])
    \/ LogEventWrite(1)
    \/ BuildAnalysisContext("s1")
    \/ CallCalculateAllMetrics

SpecExecuted == Init /\ [][NextExecuted]_vars

\* the SQL_RUN events the execute-sql handler logged with a non-empty text
ExecutedRuns ==
    SelectSeq(SessionEvents(db, "s1"),
              LAMBDA e : /\ e.event_type = "SQL_RUN"
                         /\ "query_text" \in DOMAIN e.metadata
                         /\ e.metadata["query_text"] # <<>>)

\* C27: when a session's only SQL_RUN events are the n the execute-sql handler
\* logged with a non-empty query text, the report's sql_complexity.sample_size
\* is n.
C27_ExecutedQueriesAreAnalysed ==
    (/\ HasReport
     /\ report # RaisedKeyError
     /\ Len(ExecutedRuns) = Len(SessionEvents(db, "s1")))
        => report.sql_complexity.sample_size = Len(ExecutedRuns)

(***************************************************************************)
(* The interview: prompts in both modes and the submission.                *)
(***************************************************************************)
InterviewPrompts == {<<"fix", "it">>}

NextInterview ==
    \/ InitAiEngine(<<"ollama">>)
    \/ CreateSession("s1")
    \/ \E user_prompt \in InterviewPrompts, mode \in Modes :
            /\ Len(db.ai_interactions) < MaxPrompts
            /\ AiPromptBegin(1, "s1", user_prompt, mode)
    \/ Invoke(1, "ok")
    \/ AiPromptRead(1)
    \/ AiPromptWrite(1)
    \/ \E interaction_id \in 1..2 :
            /\ CountSessionEvents(db, "s1", "AI_RESPONSE_USED") < MaxUsed
            /\ MarkResponseUsedRead(1, interaction_id)
    \/ MarkResponseUsedWrite(1)
    \/ SubmitCodingPhase("s1")

SpecInterview == Init /\ [][NextInterview]_vars

\* the phase of a session, "None" when it has no row or no phase
PhaseOf(session_id) ==
    IF HasSession(db, session_id)
          /\ "phase" \in DOMAIN FindSession(db, session_id).attrs
    THEN FindSession(db, session_id).attrs["phase"]
    ELSE "None"

\* C28: a session never has more than 5 INTERVIEW_QUESTION events, and a
\* session for which an interview-mode prompt logged INTERVIEW_COMPLETED is in
\* phase 'completed'.
C28_InterviewStopsAtFiveQuestions ==
    \A s \in SessionIds :
        /\ CountSessionEvents(db, s, "INTERVIEW_QUESTION") <= 5
        /\ CountSessionEvents(db, s, "INTERVIEW_COMPLETED") > 0
                => PhaseOf(s) = "completed"

(***************************************************************************)
(* Submission of the coding phase.                                         *)
(***************************************************************************)
SubmitEventTypes == {"CODE_EDIT", "SQL_RUN"}

NextSubmit ==
    \/ \E s \in SessionIds : CreateSession(s)
    \/ \E s \in SessionIds : SubmitCodingPhase(s)
    \/ \E s \in SessionIds, t \in SubmitEventTypes :
            /\ Len(db.events) < MaxSubmitEvents
            /\ LogEventRead(1, s, t, <<>>)
    \/ LogEventWrite(1)

SpecSubmit == Init /\ [][NextSubmit]_vars

\* C29: a submission for an unknown session is answered with status 404, one
\* for a session whose phase is not 'coding' with status 400, and one that is
\* accepted leaves the session in phase 'interview'.
C29_SubmitRejectsOutsideCoding ==
    reply.handler = "submit_coding_phase" =>
        IF ~HasSession(db, reply.session_id)
        THEN reply.status = NotFound
        ELSE \/ reply.status = BadRequest /\ PhaseOf(reply.session_id) # "coding"
             \/ reply.status = Ok /\ PhaseOf(reply.session_id) = "interview"

(***************************************************************************)
(* Event-logging requests in progress at the same time.                    *)
(***************************************************************************)
CallIds == 1..MaxInFlight

\* the rows logged and the requests that will log one
Logged == Len(db.events) + Cardinality(DOMAIN calls)

NextRace ==
    \/ \E c \in CallIds :
            /\ Logged < MaxRaceEvents
            /\ LogEventRead(c, "s1", "CODE_EDIT", <<>>)
    \/ \E c \in CallIds : LogEventWrite(c)
    \/ \E c \in CallIds, success \in BOOLEAN :
            /\ Logged < MaxRaceEvents
            /\ ExecuteSqlRead(c, "s1", SimpleQuery, success)
    \/ \E c \in CallIds : ExecuteSqlWrite(c)

SpecRace == Init /\ [][NextRace]_vars

\* C30: no two events of a session have the same sequence_number.
C30_SequenceNumbersUnique ==
    \A i \in DOMAIN db.events, j \in DOMAIN db.events :
        (i # j /\ db.events[i].session_id = db.events[j].session_id)
            => db.events[i].sequence_number # db.events[j].sequence_number

====
